---------------------------- MODULE Spec2Model ----------------------------
(***************************************************************************)
(* Route Safety Engine of the flood detection demo (Streamlit frontend).  *)
(*                                                                         *)
(* The module holds one state machine per component, each with its own    *)
(* specification over the shared variables:                               *)
(*   SpecCap     capacity set-up of the route planner (route_planner.py)  *)
(*   SpecPlan    one route planning request (route_planner.py render)     *)
(*   SpecAnalyze one call of analyze_road_flood_impact_improved            *)
(*   SpecRoad    one call of analyze_road_impact (disaster_management.py)  *)
(*   SpecTiles   one call of generate_tiles (flood_detection.py)           *)
(*   SpecSession repeated route planning requests of one session          *)
(*   SpecNames   one call of convert_coordinates_to_road_names             *)
(*   SpecRun     one hazard analysis run (tabs/disaster_management.py)     *)
(*   SpecCache   hazard tile lookups of process_flood_tiles through the    *)
(*               st.cache_data memos (flood_detection.py)                  *)
(* A specification leaves the variables of the other components at their  *)
(* initial values.                                                         *)
(***************************************************************************)
EXTENDS Integers, Sequences, FiniteSets, TLC

VARIABLES
    \* ---- capacity set-up (route_planner.py 79-97)
    cap_in,             \* [D, V]: selected stops and vehicle count
    cap_out,            \* [done, capacities, penalised]
    \* ---- route planner request (route_planner.py render)
    distance_matrix,    \* the provider's matrix, by location index
    route_data,         \* st.session_state.route_data: [present, routes: vehicle_id -> route]
    rp,                 \* what the last request did (inputs, routing model, solution)
    \* ---- hazard tile cache (flood_detection.py 38-113, 370-397)
    configured,         \* N8N_WEBHOOK_URL and BACKEND_MCP_URL are set
    overlay_cache,      \* st.cache_data of get_flood_overlay_from_n8n: key -> entry
    url_cache,          \* st.cache_data of request_flood_map_from_n8n: key -> entry
    provider_calls,     \* key -> [post, get]: requests sent to the provider
    pft,                \* the running process_flood_tiles call
    \* ---- hazard intersection analyzer (flood_detection.py 174-286)
    an_in,              \* [route_data, rasters, directions]: one call's inputs
    an_out,             \* [done, checked, affected_segments]: what the call returned
    \* ---- road impact of a hazard raster (disaster_management.py 40-76)
    road_in,            \* [roads_geojson, flood_pixels]: one call's inputs
    road_out,           \* [done, affected_roads, near_flood_roads]
    \* ---- tile grid of a bounding box (flood_detection.py 20-31)
    tile_in,            \* [bbox, tile_size_deg]: one call's inputs
    tile_out,           \* [done, tiles]: what generate_tiles returned
    \* ---- planner session: route_data was present before the last render
    route_before,
    \* ---- road names of flagged points (tabs/disaster_management.py 10-100): names_in = [affected_segments, road_response], names_out = [done, road_impacts]
    names_in,
    names_out,
    \* ---- one hazard analysis run (tabs/disaster_management.py 238-304): run_in = [route_data, tile_results, directions, road_response], run_out = [done, results]
    run_in,
    run_out,
    run_shown,          \* what the result display drew last: [shown, alternatives: vehicle_id -> routes]
    \* ---- concurrent lookups of the overlay memo (flood_detection.py 100-113): lookups = request -> [pc, key, waited, computed, none, value], compute_lock = key -> the request that computes its value (0: none)
    lookups,
    compute_lock,
    \* ---- hazard tab session (app.py 50-90, tabs/disaster_management.py 176-379): script_pc = the tab the script run is at, run_improved_analysis = absent | True | False, improved_analysis_results = [present, error, value]; history: provenance = [routes, run] the stored results were computed from, last_step, analyze_clicks, analysis_runs
    script_pc,
    run_improved_analysis,
    improved_analysis_results,
    provenance,
    last_step,
    analyze_clicks,
    analysis_runs,
    \* ---- backend start-up assets (flood-detection-backend/app/main.py 558-650): ens_in = [credentials, client_ok, assets: asset -> [exists, minio, fallback_url, fallback, patch]], ens = [pc, i, s3_client, exit_status, log: asset -> [tried, downloaded, patched]]
    ens_in,
    ens

capVars  == <<cap_in, cap_out>>
planVars == <<distance_matrix, route_data, rp>>
cacheVars == <<configured, overlay_cache, url_cache, provider_calls, pft>>
anVars   == <<an_in, an_out>>
vars     == <<cap_in, cap_out, distance_matrix, route_data, rp,
             configured, overlay_cache, url_cache, provider_calls, pft,
             an_in, an_out, road_in, road_out, tile_in, tile_out,
             route_before,
             names_in, names_out,
             run_in, run_out, run_shown,
             lookups, compute_lock,
             script_pc, run_improved_analysis, improved_analysis_results, provenance, last_step, analyze_clicks, analysis_runs,
             ens_in, ens>>
ensVars == <<ens_in, ens>>
hzVars == <<script_pc, run_improved_analysis, improved_analysis_results, provenance, last_step, analyze_clicks, analysis_runs>>
lookVars == <<lookups, compute_lock>>
runVars == <<run_in, run_out, run_shown>>
namesVars == <<names_in, names_out>>
sessVars == <<route_before>>
tileVars == <<tile_in, tile_out>>
roadVars == <<road_in, road_out>>

----------------------------------------------------------------------------
(* Generic helpers *)

Range(s) == {s[i] : i \in 1..Len(s)}

RECURSIVE SumSeq(_)
SumSeq(s) == IF s = <<>> THEN 0 ELSE s[1] + SumSeq(Tail(s))

\* all sequences over S of length 0..n
RECURSIVE SeqsUpTo(_, _)
SeqsUpTo(S, n) ==
    IF n = 0 THEN {<<>>}
    ELSE LET shorter == SeqsUpTo(S, n - 1)
         IN  shorter \cup {Append(s, x) : s \in {t \in shorter : Len(t) = n - 1}, x \in S}

\* the elements of a set of integers in ascending order
RECURSIVE SortedSeq(_)
SortedSeq(S) ==
    IF S = {} THEN <<>>
    ELSE LET m == CHOOSE x \in S : \A y \in S : x <= y
         IN  <<m>> \o SortedSeq(S \ {m})

Max2(a, b) == IF a >= b THEN a ELSE b
Min2(a, b) == IF a <= b THEN a ELSE b

----------------------------------------------------------------------------
(* Route planner: routing model set-up, route_planner.py 79-97 *)

MaxVehicles == 5        \* st.number_input(max_value=5)
MaxDemand == 12         \* most stops selected in the capacity set-up runs

\* penalty = 1000000
penalty == 1000000

\* if len(selected_destinations) > 1: AddDisjunction for node in range(1, n)
disjunction_nodes(n_selected, n_nodes) ==
    IF n_selected > 1 THEN 1..(n_nodes - 1) ELSE {}

\* demands = [0] + [1] * (len(distance_matrix) - 1)
demands(n_nodes) == [node \in 0..(n_nodes - 1) |-> IF node = 0 THEN 0 ELSE 1]

total_demand(n_nodes) == SumSeq([k \in 1..n_nodes |-> demands(n_nodes)[k - 1]])

\* capacities that split the stops evenly, rounded down, one for a single stop
vehicle_capacities_even_split(n_selected, n_nodes, num_vehicles) ==
    [v \in 0..(num_vehicles - 1) |->
        IF n_selected = 1 THEN 1 ELSE Max2((n_nodes - 1) \div num_vehicles, 1)]

vehicle_capacities_no_slack(n_selected, n_nodes, num_vehicles) ==
    IF n_selected = 1
    THEN [v \in 0..(num_vehicles - 1) |-> n_nodes]
    ELSE [v \in 0..(num_vehicles - 1) |->
             Max2(total_demand(n_nodes) \div num_vehicles, 1)]

\* one stop: len(demands) each; else total_demand // num_vehicles + 1, at least 1
vehicle_capacities(n_selected, n_nodes, num_vehicles) ==
    IF n_selected = 1
    THEN [v \in 0..(num_vehicles - 1) |-> n_nodes]
    ELSE [v \in 0..(num_vehicles - 1) |->
             Max2(total_demand(n_nodes) \div num_vehicles + 1, 1)]

NoCapacities == [done |-> FALSE, capacities |-> <<>>, penalised |-> {}]

\* the capacity set-up's inputs: D selected stops, V vehicles
CapInputs == [D : 1..MaxDemand, V : 1..MaxVehicles]

\* lines 79-97 for D selected stops (D + 1 rows in the matrix) and V vehicles
SetUpCapacities ==
    /\ ~cap_out.done
    /\ cap_out' = [done |-> TRUE,
                   capacities |-> vehicle_capacities(cap_in.D, cap_in.D + 1, cap_in.V),
                   penalised |-> disjunction_nodes(cap_in.D, cap_in.D + 1)]
    /\ UNCHANGED cap_in

CeilDiv(a, b) == (a + b - 1) \div b

----------------------------------------------------------------------------
(* Route planner: one request, route_planner.py render (10-223) *)

NumLocations == 3       \* rows of logistics_locations in the model

\* index of a row of df_locations; labels are unique, a label is its row
Locations == 0..(NumLocations - 1)

\* [Longitude, Latitude] of a row (app.py 58-82: distinct per location)
LocCoord(l) == <<l, (l * l) % 3>>

\* selected_df.loc[0, "Label"] = "DEPOT"
DepotLabel == -1

\* distance matrices the provider may hold: zero diagonal, asymmetric
Matrices ==
    {[i \in Locations |-> [j \in Locations |->
        IF i = j THEN 0 ELSE 1 + ((a * i + b * j) % 3)]] : a \in 1..2, b \in 1..2}

\* selected_df: the rows of df_locations whose label is in route_locations,
\* in the order of df_locations, re-indexed from 0 (node k is nodes[k + 1])
selected_df(depot_label, selected_destinations) ==
    SortedSeq({depot_label} \cup selected_destinations)

\* the stops of one vehicle in a solution: the visited nodes given to it, in
\* visiting order
RouteOf(assign, order, v) == SelectSeq(order, LAMBDA node : assign[node] = v)

\* the solutions the routing model admits: every node 1..n-1 is on at most one
\* route, once; a node without disjunction is on a route; the stops on a route
\* (its cumulated demand) do not exceed the vehicle's capacity
Solutions(n_nodes, num_vehicles, capacities, penalised) ==
    LET stops == 1..(n_nodes - 1)
        assigns == {a \in [stops -> -1..(num_vehicles - 1)] :
                       /\ \A node \in stops : a[node] = -1 => node \in penalised
                       /\ \A v \in 0..(num_vehicles - 1) :
                            Cardinality({node \in stops : a[node] = v}) <= capacities[v]}
        orders == {o \in [1..(n_nodes - 1) -> stops] :
                       \A i, j \in 1..(n_nodes - 1) : i # j => o[i] # o[j]}
    IN  {[v \in 0..(num_vehicles - 1) |-> RouteOf(a, o, v)] : a \in assigns, o \in orders}

\* the node sequence of a vehicle: Start, its stops, End
NodePath(stops) == <<0>> \o stops \o <<0>>

\* route_distance: the arc costs along the path, lines 137-144
route_distance(dm, path) ==
    SumSeq([k \in 1..(Len(path) - 1) |-> dm[path[k]][path[k + 1]]])

\* the objective of a solution: arc costs plus the penalty of each dropped node
Objective(dm, sol, n_nodes, pen) ==
    LET visited == UNION {Range(sol[v]) : v \in DOMAIN sol}
        vs == SortedSeq(DOMAIN sol)
    IN  SumSeq([k \in 1..Len(vs) |-> route_distance(dm, NodePath(sol[vs[k]]))])
          + pen * Cardinality((1..(n_nodes - 1)) \ visited)

\* new_route_data, lines 129-156: only routes with an actual destination
new_route_data(nodes, dm, sol) ==
    LET coords(v)  == [k \in 1..(Len(sol[v]) + 2) |-> LocCoord(nodes[NodePath(sol[v])[k] + 1])]
        display(v) == [k \in 1..(Len(sol[v]) + 1) |->
                          IF NodePath(sol[v])[k] = 0 THEN DepotLabel
                          ELSE nodes[NodePath(sol[v])[k] + 1]]
    IN  [v \in {w \in DOMAIN sol : Len(coords(w)) > 2} |->
            [coords   |-> coords(v),
             display  |-> display(v),
             distance |-> route_distance(dm, NodePath(sol[v]))]]

\* "route_data" not in st.session_state
Absent == [present |-> FALSE, routes |-> <<>>]

NoRequest ==
    [outcome |-> "idle", depot_label |-> 0, num_vehicles |-> 0, selected |-> {},
     nodes |-> <<>>, capacities |-> <<>>, penalised |-> {}, solution |-> <<>>,
     objective |-> 0]


\* an early return that drops the stored routes
RenderNoDestinationClears ==
    /\ rp' = [NoRequest EXCEPT !.outcome = "no_destination"]
    /\ route_data' = Absent
    /\ UNCHANGED distance_matrix

\* lines 45-47: no destination selected
RenderNoDestination ==
    /\ rp' = [NoRequest EXCEPT !.outcome = "no_destination"]
    /\ UNCHANGED <<distance_matrix, route_data>>

\* lines 62-66: get_distance_matrix raises
RenderMatrixError(depot_label, num_vehicles, selected_destinations) ==
    /\ selected_destinations # {}
    /\ rp' = [NoRequest EXCEPT !.outcome = "matrix_error",
                               !.depot_label = depot_label,
                               !.num_vehicles = num_vehicles,
                               !.selected = selected_destinations]
    /\ UNCHANGED <<distance_matrix, route_data>>

\* a failed request that leaves the stored routes alone
route_data_kept(stored) == stored

\* lines 220-223: no solution, route_data is deleted from the session state
route_data_after_failure(stored) == Absent

\* lines 53-223 with the matrix obtained; solved is FALSE when
\* SolveWithParameters returns no solution, else sol is the solution
RenderSolve(depot_label, num_vehicles, selected_destinations, solved, sol) ==
    LET nodes == selected_df(depot_label, selected_destinations)
        n     == Len(nodes)
        dm    == [i \in 0..(n - 1) |-> [j \in 0..(n - 1) |->
                     distance_matrix[nodes[i + 1]][nodes[j + 1]]]]
        caps  == vehicle_capacities(Cardinality(selected_destinations), n, num_vehicles)
        pens  == disjunction_nodes(Cardinality(selected_destinations), n)
        req   == [NoRequest EXCEPT !.depot_label = depot_label,
                                   !.num_vehicles = num_vehicles,
                                   !.selected = selected_destinations,
                                   !.nodes = nodes,
                                   !.capacities = caps,
                                   !.penalised = pens]
    IN  /\ selected_destinations # {}
        /\ IF solved
           THEN /\ sol \in Solutions(n, num_vehicles, caps, pens)
                /\ rp' = [req EXCEPT !.outcome = "ok",
                                     !.solution = sol,
                                     !.objective = Objective(dm, sol, n, penalty)]
                /\ route_data' = [present |-> TRUE,
                                  routes |-> new_route_data(nodes, dm, sol)]
           ELSE /\ sol = <<>>
                /\ rp' = [req EXCEPT !.outcome = "no_solution"]
                /\ route_data' = route_data_after_failure(route_data)
        /\ UNCHANGED distance_matrix

\* the routing model render builds for a request
ModelCapacities(depot_label, num_vehicles, selected_destinations) ==
    vehicle_capacities(Cardinality(selected_destinations),
                       Len(selected_df(depot_label, selected_destinations)),
                       num_vehicles)

ModelSolutions(depot_label, num_vehicles, selected_destinations) ==
    Solutions(Len(selected_df(depot_label, selected_destinations)), num_vehicles,
              ModelCapacities(depot_label, num_vehicles, selected_destinations),
              disjunction_nodes(Cardinality(selected_destinations),
                                Len(selected_df(depot_label, selected_destinations))))

\* one request of the route planner tab, from a fresh session
\* one run of render with whatever the widgets hold: depot and checked
\* destinations among labels, the vehicle slider at one of vehicle_counts
RenderWith(labels, vehicle_counts) ==
    \/ RenderNoDestination
    \/ \E depot_label \in labels, num_vehicles \in vehicle_counts :
         \E selected_destinations \in SUBSET (labels \ {depot_label}) :
            \/ RenderMatrixError(depot_label, num_vehicles, selected_destinations)
            \/ RenderSolve(depot_label, num_vehicles, selected_destinations, FALSE, <<>>)
            \/ /\ selected_destinations # {}
               /\ \E sol \in ModelSolutions(depot_label, num_vehicles, selected_destinations) :
                     RenderSolve(depot_label, num_vehicles, selected_destinations, TRUE, sol)

Render == RenderWith(Locations, 1..MaxVehicles)

PlanRequest ==
    /\ rp.outcome = "idle"
    /\ Render

\* a session: the script reruns render on every interaction
MaxSessionLabels == 2       \* locations used within a session
SessionVehicleCounts == {1, 2}   \* positions of the vehicle slider within a session

SessionRender ==
    /\ RenderWith(0..(MaxSessionLabels - 1), SessionVehicleCounts)
    /\ route_before' = route_data.present

----------------------------------------------------------------------------
(* Hazard tile cache: flood_detection.py 38-113 and process_flood_tiles *)

NumTiles == 2           \* tiles of the grid in the model
MaxCalls == 2           \* cap on the requests counted per key

TileIds == 1..NumTiles
Dates == {"2019-11-14T00:00:00", "2019-11-15T00:00:00"}

\* the arguments of the cached functions: (bbox, analysis_date)
Keys == TileIds \X Dates

\* what the provider does with one request_flood_map_from_n8n / fetch_flood_geotiff
ProviderOutcomes ==
    {"network_error",   \* requests.post raises a RequestException
     "http_error",      \* raise_for_status raises HTTPError
     "status_error",    \* data["status"] != "success": RuntimeError
     "missing_url",     \* no result_url: RuntimeError
     "download_error",  \* requests.get of the result_url fails
     "unreadable",      \* rasterio cannot open the bytes
     "ok"}

\* the outcomes in which the POST to the webhook returned a result_url
UrlOutcomes == {"download_error", "unreadable", "ok"}

\* the overlay payload fetch_flood_geotiff builds for a tile
Raster(key) == [tile |-> key[1], date |-> key[2]]

\* an entry of a st.cache_data memo
NoEntry == [cached |-> FALSE, none |-> TRUE, value |-> <<>>]
Entry(value_is_none, value) == [cached |-> TRUE, none |-> value_is_none, value |-> value]

\* st.cache_data stores whatever the function returns, None only when it is
\* not stored at all
CacheStoreUnlessNone(cache, key, value_is_none, value) ==
    IF value_is_none THEN cache
    ELSE [cache EXCEPT ![key] = Entry(value_is_none, value)]

\* st.cache_data stores whatever the function returns, None included
CacheStore(cache, key, value_is_none, value) ==
    [cache EXCEPT ![key] = Entry(value_is_none, value)]

\* request_flood_map_from_n8n(bbox, analysis_date) through its cache:
\* [raised, posted, url_cache]
request_flood_map_from_n8n(key, outcome) ==
    IF url_cache[key].cached
    THEN [raised |-> FALSE, posted |-> FALSE, url_cache |-> url_cache]
    ELSE IF ~configured
    THEN [raised |-> TRUE, posted |-> FALSE, url_cache |-> url_cache]
    ELSE IF outcome \in UrlOutcomes
    THEN [raised |-> FALSE, posted |-> TRUE,
          url_cache |-> CacheStore(url_cache, key, FALSE, <<"result_url", key>>)]
    ELSE [raised |-> TRUE, posted |-> TRUE, url_cache |-> url_cache]

\* the body of get_flood_overlay_from_n8n without its last handler: an error
\* that is no RequestException leaves the function
OverlayBodyNoCatchAll(key, outcome) ==
    LET req == request_flood_map_from_n8n(key, outcome)
    IN  IF req.raised
        THEN [raised |-> ~req.posted \/ outcome \in {"status_error", "missing_url"},
              none |-> TRUE, value |-> <<>>,
              posted |-> req.posted, got |-> FALSE, url_cache |-> req.url_cache]
        ELSE IF outcome = "ok"
        THEN [raised |-> FALSE, none |-> FALSE, value |-> Raster(key),
              posted |-> req.posted, got |-> TRUE, url_cache |-> req.url_cache]
        ELSE [raised |-> outcome = "unreadable", none |-> TRUE, value |-> <<>>,
              posted |-> req.posted, got |-> TRUE, url_cache |-> req.url_cache]

\* the body of get_flood_overlay_from_n8n, lines 103-113: every exception is
\* caught and turned into None
OverlayBody(key, outcome) ==
    LET req == request_flood_map_from_n8n(key, outcome)
    IN  IF req.raised
        THEN [raised |-> FALSE, none |-> TRUE, value |-> <<>>,
              posted |-> req.posted, got |-> FALSE, url_cache |-> req.url_cache]
        ELSE IF outcome = "ok"
        THEN [raised |-> FALSE, none |-> FALSE, value |-> Raster(key),
              posted |-> req.posted, got |-> TRUE, url_cache |-> req.url_cache]
        ELSE [raised |-> FALSE, none |-> TRUE, value |-> <<>>,
              posted |-> req.posted, got |-> TRUE, url_cache |-> req.url_cache]

\* get_flood_overlay_from_n8n(bbox, analysis_date) through its cache:
\* [hit, raised, none, value, posted, got, overlay_cache, url_cache]
get_flood_overlay_from_n8n(key, outcome) ==
    IF overlay_cache[key].cached
    THEN [hit |-> TRUE, raised |-> FALSE,
          none |-> overlay_cache[key].none, value |-> overlay_cache[key].value,
          posted |-> FALSE, got |-> FALSE,
          overlay_cache |-> overlay_cache, url_cache |-> url_cache]
    ELSE LET body == OverlayBody(key, outcome)
         IN  [hit |-> FALSE, raised |-> body.raised,
              none |-> body.none, value |-> body.value,
              posted |-> body.posted, got |-> body.got,
              overlay_cache |-> IF body.raised THEN overlay_cache
                                ELSE CacheStore(overlay_cache, key, body.none, body.value),
              url_cache |-> body.url_cache]

\* tile lists as generate_tiles yields them: distinct tiles in grid order
TileLists == {SortedSeq(S) : S \in SUBSET TileIds}

NoProcess ==
    [pc |-> "idle", tiles |-> <<>>, date |-> "", i |-> 0, all_flood_rasters |-> <<>>,
     looked |-> <<>>, failed |-> {}, last_hit |-> FALSE]

NoCalls == [post |-> 0, get |-> 0]

\* process_flood_tiles(tiles_to_process, analysis_date) is called, lines 370-378
StartProcess(tiles_to_process, analysis_date) ==
    /\ pft.pc # "loop"
    /\ pft' = [NoProcess EXCEPT !.pc = IF tiles_to_process = <<>> THEN "done" ELSE "loop",
                                !.tiles = tiles_to_process,
                                !.date = analysis_date,
                                !.i = 1]
    /\ UNCHANGED <<configured, overlay_cache, url_cache, provider_calls>>

\* one iteration of the loop of lines 380-391 (and 393-397 after the last)
ProcessTile(outcome) ==
    /\ pft.pc = "loop"
    /\ LET key == <<pft.tiles[pft.i], pft.date>>
           r   == get_flood_overlay_from_n8n(key, outcome)
           post == provider_calls[key].post + (IF r.posted THEN 1 ELSE 0)
           get  == provider_calls[key].get + (IF r.got THEN 1 ELSE 0)
       IN  /\ post <= MaxCalls
           /\ get <= MaxCalls
           /\ overlay_cache' = r.overlay_cache
           /\ url_cache' = r.url_cache
           /\ provider_calls' = [provider_calls EXCEPT ![key] = [post |-> post, get |-> get]]
           /\ pft' = [pft EXCEPT
                        !.pc = IF r.raised THEN "aborted"
                               ELSE IF pft.i = Len(pft.tiles) THEN "done" ELSE "loop",
                        !.i = pft.i + 1,
                        !.all_flood_rasters =
                            IF r.raised \/ r.none THEN pft.all_flood_rasters
                            ELSE Append(pft.all_flood_rasters, r.value),
                        !.looked = Append(pft.looked, key),
                        !.failed = IF r.raised \/ r.none THEN pft.failed \cup {pft.i}
                                   ELSE pft.failed,
                        !.last_hit = r.hit]
    /\ UNCHANGED configured

CacheStep ==
    \/ \E tiles_to_process \in TileLists, analysis_date \in Dates :
          StartProcess(tiles_to_process, analysis_date)
    \/ \E outcome \in ProviderOutcomes : ProcessTile(outcome)

----------------------------------------------------------------------------
(* Concurrent lookups of get_flood_overlay_from_n8n: sessions of one server
   process share the st.cache_data memo of line 100; the memo computes a
   missing value under a lock of the value's key and looks the key up again
   once it holds the lock *)

NumRequests == 2        \* script threads that look a tile up at the same time
Requests == 1..NumRequests

NoLookup == [pc |-> "idle", key |-> <<>>, waited |-> FALSE, computed |-> FALSE,
             none |-> TRUE, value |-> <<>>]

Returned(lookup, entry) ==
    [lookup EXCEPT !.pc = "returned", !.none = entry.none, !.value = entry.value]

\* a memo that computes a missing value without taking the lock of its key
lock_ignored(key) == TRUE

\* the lock of the key is free
lock_free(key) == compute_lock[key] = 0

\* the call reads the memo: a hit returns, a miss goes for the lock
CallOverlay(r, key) ==
    /\ lookups[r].pc = "idle"
    /\ lookups' = [lookups EXCEPT ![r] =
                      IF overlay_cache[key].cached
                      THEN Returned([NoLookup EXCEPT !.key = key], overlay_cache[key])
                      ELSE [NoLookup EXCEPT !.pc = "waiting", !.key = key]]
    /\ UNCHANGED <<compute_lock, overlay_cache, url_cache, provider_calls>>

\* the lock is taken and the memo read again: a value another request stored
\* meanwhile is returned, else the function body starts
AcquireLock(r) ==
    /\ lookups[r].pc = "waiting"
    /\ lock_free(lookups[r].key)
    /\ IF overlay_cache[lookups[r].key].cached
       THEN /\ lookups' = [lookups EXCEPT ![r] =
                              Returned([lookups[r] EXCEPT !.waited = TRUE],
                                       overlay_cache[lookups[r].key])]
            /\ UNCHANGED compute_lock
       ELSE /\ lookups' = [lookups EXCEPT ![r].pc = "computing"]
            /\ compute_lock' = [compute_lock EXCEPT ![lookups[r].key] = r]
    /\ UNCHANGED <<overlay_cache, url_cache, provider_calls>>

\* the function body (lines 102-113) ends with what the provider did; the
\* value is stored and the lock released
FinishOverlay(r, outcome) ==
    /\ lookups[r].pc = "computing"
    /\ LET key == lookups[r].key
           body == OverlayBody(key, outcome)
       IN  /\ overlay_cache' = IF body.raised THEN overlay_cache
                               ELSE CacheStore(overlay_cache, key, body.none, body.value)
           /\ url_cache' = body.url_cache
           /\ provider_calls' = [provider_calls EXCEPT ![key] =
                  [post |-> provider_calls[key].post + (IF body.posted THEN 1 ELSE 0),
                   get |-> provider_calls[key].get + (IF body.got THEN 1 ELSE 0)]]
           /\ compute_lock' = [compute_lock EXCEPT ![key] = 0]
           /\ lookups' = [lookups EXCEPT ![r] =
                  [lookups[r] EXCEPT !.pc = "returned", !.computed = TRUE,
                                     !.none = body.none, !.value = body.value]]

LookupStep ==
    \/ \E r \in Requests, key \in Keys : CallOverlay(r, key)
    \/ \E r \in Requests : AcquireLock(r)
    \/ \E r \in Requests, outcome \in ProviderOutcomes : FinishOverlay(r, outcome)

----------------------------------------------------------------------------
(* Hazard intersection analyzer: analyze_road_flood_impact_improved *)

MaxCoords == 2          \* longest stop list of a route in the model
MaxRasters == 2         \* longest list of hazard rasters in the model

\* route coordinates [lon, lat]
Points == {<<lon, lat>> : lon \in 0..1, lat \in 0..1}

\* pyproj transformer EPSG:4326 -> crs with always_xy; a raster in WGS84 needs
\* no change, a projected raster scales and shifts
Project(crs, lon, lat) ==
    IF crs = "EPSG:4326" THEN <<lon, lat>> ELSE <<2 * lon + 10, 2 * lat + 20>>

\* points for which the projection or the pixel indexing raises
ProjectionRaises(crs, lon, lat) == crs = "EPSG:27700" /\ lon = 1

\* rasterio.transform.rowcol for a north-up transform
\* [a: pixel width, c: x of the left edge, e: -(pixel height), f: y of the top edge]
rowcol(transform, x, y) ==
    <<(transform.f - y) \div (0 - transform.e), (x - transform.c) \div transform.a>>

\* hazard rasters as fetch_flood_geotiff builds them: bounds = [[south, west],
\* [north, east]] is the WGS84 envelope of the raster's footprint,
\* pixels[row][col] (1-based rows and columns here)
RasterCatalog ==
    {\* WGS84, one column over lon [0, 1], rows over lat (0, 1] and (-1, 0]:
     \* lat 1 flooded, lat 0 dry, lon 1 on the east edge past the last column
     [crs |-> "EPSG:4326", bounds |-> <<<<-1, 0>>, <<1, 1>>>>,
      transform |-> [a |-> 1, c |-> 0, e |-> -1, f |-> 1],
      pixels |-> <<<<1>>, <<0>>>>],
     \* WGS84, one row over lat (0, 1], columns over lon [1, 3], all flooded;
     \* lon 0 outside the bounds, lat 0 on the south edge below the last row
     [crs |-> "EPSG:4326", bounds |-> <<<<0, 1>>, <<1, 3>>>>,
      transform |-> [a |-> 1, c |-> 1, e |-> -1, f |-> 1],
      pixels |-> <<<<1, 1>>>>],
     \* projected, pixels of 2 x 2 units, a pixel that is neither 0 nor 1
     [crs |-> "EPSG:27700", bounds |-> <<<<-1, 0>>, <<2, 2>>>>,
      transform |-> [a |-> 2, c |-> 10, e |-> -2, f |-> 23],
      pixels |-> <<<<1, 0>>, <<255, 1>>>>],
     \* WGS84, 2 x 2 over lon [0, 2] and lat (-1, 1], flooded but for lon 1, lat 0
     [crs |-> "EPSG:4326", bounds |-> <<<<-1, 0>>, <<1, 2>>>>,
      transform |-> [a |-> 1, c |-> 0, e |-> -1, f |-> 1],
      pixels |-> <<<<1, 1>>, <<1, 0>>>>]}

RasterLists == SeqsUpTo(RasterCatalog, MaxRasters)

\* what get_directions answers for a stop list
Dense(coords) ==
    [k \in 1..(2 * Len(coords) - 1) |->
        IF k % 2 = 1 THEN coords[(k + 1) \div 2]
        ELSE <<coords[k \div 2][1], coords[k \div 2 + 1][2]>>]

Directions(coords) ==
    {[kind |-> "raise", features |-> <<>>],
     [kind |-> "ok", features |-> <<>>],
     [kind |-> "ok", features |-> <<[type |-> "Point", coordinates |-> coords]>>],
     [kind |-> "ok", features |-> <<[type |-> "LineString", coordinates |-> Dense(coords)]>>],
     [kind |-> "ok", features |-> <<[type |-> "Point", coordinates |-> coords],
                                   [type |-> "LineString", coordinates |-> coords],
                                   [type |-> "LineString", coordinates |-> <<<<1, 1>>>>]>>]}

\* lines 196-216: the coordinates that are checked for a vehicle
RECURSIVE detailed_coords(_)
detailed_coords(features) ==
    IF features = <<>> THEN <<>>
    ELSE (IF features[1].type = "LineString" THEN features[1].coordinates ELSE <<>>)
            \o detailed_coords(Tail(features))

\* lines 209-216 without the fallback: a vehicle whose geometry request failed
\* has no coordinate checked
coords_to_check_no_fallback(route_coords, directions) ==
    IF directions.kind = "ok" /\ Len(directions.features) > 0
    THEN detailed_coords(directions.features)
    ELSE <<>>

coords_to_check(route_coords, directions) ==
    IF directions.kind = "ok" /\ Len(directions.features) > 0
    THEN detailed_coords(directions.features)
    ELSE route_coords

\* lines 235-252 for one coordinate and one raster: "skip" (outside the bounds,
\* outside the raster, an exception) or the pixel and its value
PixelAt(coord, raster_data) ==
    LET lon == coord[1]
        lat == coord[2]
        min_tile_lon == raster_data.bounds[1][2]
        min_tile_lat == raster_data.bounds[1][1]
        max_tile_lon == raster_data.bounds[2][2]
        max_tile_lat == raster_data.bounds[2][1]
        proj == Project(raster_data.crs, lon, lat)
        rc   == rowcol(raster_data.transform, proj[1], proj[2])
        py   == rc[1]
        px   == rc[2]
    IN  IF ~(min_tile_lon <= lon /\ lon <= max_tile_lon
             /\ min_tile_lat <= lat /\ lat <= max_tile_lat)
        THEN [skip |-> TRUE, px |-> 0, py |-> 0, value |-> 0]
        ELSE IF ProjectionRaises(raster_data.crs, lon, lat)
        THEN [skip |-> TRUE, px |-> 0, py |-> 0, value |-> 0]
        ELSE IF 0 <= py /\ py < Len(raster_data.pixels)
                /\ 0 <= px /\ px < Len(raster_data.pixels[1])
        THEN [skip |-> FALSE, px |-> px, py |-> py,
              value |-> raster_data.pixels[py + 1][px + 1]]
        ELSE [skip |-> TRUE, px |-> 0, py |-> 0, value |-> 0]

\* the loop over the rasters without its break: every flooded raster records
RECURSIVE CheckCoordinateAllRasters(_, _, _, _, _)
CheckCoordinateAllRasters(vehicle_num, i, coord, rasters, raster_idx) ==
    IF raster_idx >= Len(rasters) THEN <<>>
    ELSE LET p == PixelAt(coord, rasters[raster_idx + 1])
         IN  IF ~p.skip /\ p.value = 1
             THEN <<[vehicle |-> vehicle_num, segment |-> i, coordinate |-> coord,
                     raster_index |-> raster_idx, pixel_coords |-> <<p.px, p.py>>,
                     flood_value |-> p.value]>>
                   \o CheckCoordinateAllRasters(vehicle_num, i, coord, rasters, raster_idx + 1)
             ELSE CheckCoordinateAllRasters(vehicle_num, i, coord, rasters, raster_idx + 1)

\* the loop over the rasters ended by the first raster that holds the point,
\* flooded or not
RECURSIVE CheckCoordinateFirstRaster(_, _, _, _, _)
CheckCoordinateFirstRaster(vehicle_num, i, coord, rasters, raster_idx) ==
    IF raster_idx >= Len(rasters) THEN <<>>
    ELSE LET p == PixelAt(coord, rasters[raster_idx + 1])
         IN  IF p.skip
             THEN CheckCoordinateFirstRaster(vehicle_num, i, coord, rasters, raster_idx + 1)
             ELSE IF p.value = 1
             THEN <<[vehicle |-> vehicle_num, segment |-> i, coordinate |-> coord,
                     raster_index |-> raster_idx, pixel_coords |-> <<p.px, p.py>>,
                     flood_value |-> p.value]>>
             ELSE <<>>

\* lines 225-272: the loop over the rasters for coordinate i, from raster_idx
\* on; the first flooded pixel records the point and ends the loop
RECURSIVE CheckCoordinate(_, _, _, _, _)
CheckCoordinate(vehicle_num, i, coord, rasters, raster_idx) ==
    IF raster_idx >= Len(rasters) THEN <<>>
    ELSE LET p == PixelAt(coord, rasters[raster_idx + 1])
         IN  IF ~p.skip /\ p.value = 1
             THEN <<[vehicle |-> vehicle_num, segment |-> i, coordinate |-> coord,
                     raster_index |-> raster_idx, pixel_coords |-> <<p.px, p.py>>,
                     flood_value |-> p.value]>>
             ELSE CheckCoordinate(vehicle_num, i, coord, rasters, raster_idx + 1)

\* lines 243-247 raise for the coordinate against the raster (the bounds test
\* of line 239 passed)
RaisesFor(coord, raster_data) ==
    /\ raster_data.bounds[1][2] <= coord[1] /\ coord[1] <= raster_data.bounds[2][2]
    /\ raster_data.bounds[1][1] <= coord[2] /\ coord[2] <= raster_data.bounds[2][1]
    /\ ProjectionRaises(raster_data.crs, coord[1], coord[2])

\* the loop over the samples with the handler of lines 268-272 around the
\* whole loop: an error ends the checks of the vehicle
RECURSIVE vehicle_affected_segments_abort(_, _, _, _)
vehicle_affected_segments_abort(vehicle_num, coords, rasters, i) ==
    IF i >= Len(coords) THEN <<>>
    ELSE IF \E k \in 1..Len(rasters) : RaisesFor(coords[i + 1], rasters[k])
    THEN <<>>
    ELSE CheckCoordinate(vehicle_num, i, coords[i + 1], rasters, 0)
            \o vehicle_affected_segments_abort(vehicle_num, coords, rasters, i + 1)

\* lines 219-272: vehicle_affected_segments of one vehicle, from sample i on
RECURSIVE vehicle_affected_segments(_, _, _, _)
vehicle_affected_segments(vehicle_num, coords, rasters, i) ==
    IF i >= Len(coords) THEN <<>>
    ELSE CheckCoordinate(vehicle_num, i, coords[i + 1], rasters, 0)
            \o vehicle_affected_segments(vehicle_num, coords, rasters, i + 1)

\* analyze_road_flood_impact_improved(route_data, list_of_flood_rasters):
\* route_data maps vehicle ids (the k of "vehicle_k") to [coords], directions
\* maps them to what get_directions answers; vehicles in dict order
RECURSIVE AnalyzeVehicles(_, _, _, _)
AnalyzeVehicles(vehicle_ids, route_data_arg, rasters, directions) ==
    IF vehicle_ids = <<>> THEN <<>>
    ELSE LET vehicle_id == vehicle_ids[1]
             checked == coords_to_check(route_data_arg[vehicle_id].coords,
                                        directions[vehicle_id])
         IN  vehicle_affected_segments(vehicle_id + 1, checked, rasters, 0)
                \o AnalyzeVehicles(Tail(vehicle_ids), route_data_arg, rasters, directions)

analyze_road_flood_impact_improved(route_data_arg, rasters, directions) ==
    IF rasters = <<>> THEN <<>>
    ELSE AnalyzeVehicles(SortedSeq(DOMAIN route_data_arg), route_data_arg, rasters, directions)

VehicleIds == {0, 1}

\* a call as render_improved_hazard_analysis makes it: {vehicle_id: route_info}
\* for one vehicle, with what the route geometry provider then answers
AnalyzeInput(vehicle_id, coords, rasters, d) ==
    [route_data |-> [v \in {vehicle_id} |-> [coords |-> coords]],
     rasters |-> rasters,
     directions |-> [v \in {vehicle_id} |-> d]]

RouteCoords == SeqsUpTo(Points, MaxCoords) \ {<<>>}

NoAnalyzeInput == AnalyzeInput(0, <<<<0, 0>>>>, <<>>, [kind |-> "raise", features |-> <<>>])

NotAnalyzed == [done |-> FALSE, checked |-> <<>>, affected_segments |-> <<>>]

Analyze ==
    /\ ~an_out.done
    /\ an_out' =
         [done |-> TRUE,
          checked |-> [v \in DOMAIN an_in.route_data |->
                          coords_to_check(an_in.route_data[v].coords, an_in.directions[v])],
          affected_segments |->
              analyze_road_flood_impact_improved(an_in.route_data, an_in.rasters,
                                                 an_in.directions)]
    /\ UNCHANGED an_in

----------------------------------------------------------------------------
(* Road impact of one hazard raster: analyze_road_impact *)

MaxVertices == 2        \* most vertices of a road feature in the model
buffer == 3

\* road vertices in road_crs; Far is a vertex for which rowcol raises
Far == <<99, 99>>
RoadPoints == {<<0, 4>>, <<1, 4>>, <<4, 4>>, <<0, 0>>, Far}

\* pyproj transformer road_crs -> map_crs
transformer_transform(x, y) == <<x + 100, y + 200>>

\* rasterio.transform.rowcol(flood_transform, lon, lat): pixels of one unit,
\* left edge at 100, top edge at 204
OutOfTransform(lon, lat) == lon > 150 \/ lat > 250
flood_rowcol(lon, lat) == <<204 - lat, lon - 100>>

\* flood_pixels[row][col], rows and columns 1-based here
FloodPixels ==
    {<<<<1, 0, 0, 0, 0>>>>,
     <<<<0, 0, 0, 0, 0>>>>,
     <<<<255, 0, 0, 0, 1>>>>,
     <<<<0>>, <<0>>, <<0>>, <<0>>, <<1>>>>}

shape0(flood_pixels) == Len(flood_pixels)
shape1(flood_pixels) == Len(flood_pixels[1])

\* np.any(flood_pixels[min_y:max_y, min_x:max_x] == 1)
AnyFlooded(flood_pixels, min_y, max_y, min_x, max_x) ==
    \E y \in min_y..(max_y - 1), x \in min_x..(max_x - 1) : flood_pixels[y + 1][x + 1] = 1

\* lines 47-70: the loop over the vertices of a feature from vertex k on
RECURSIVE ScanVertices(_, _, _, _)
ScanVertices(coordinates, flood_pixels, k, is_near_flood) ==
    IF k > Len(coordinates)
    THEN [is_flooded |-> FALSE, is_near_flood |-> is_near_flood]
    ELSE LET ll == transformer_transform(coordinates[k][1], coordinates[k][2])
             rc == flood_rowcol(ll[1], ll[2])
             py == rc[1]
             px == rc[2]
         IN  IF OutOfTransform(ll[1], ll[2])
             THEN ScanVertices(coordinates, flood_pixels, k + 1, is_near_flood)
             ELSE IF 0 <= px /\ px < shape1(flood_pixels)
                     /\ 0 <= py /\ py < shape0(flood_pixels)
             THEN IF flood_pixels[py + 1][px + 1] = 1
                  THEN [is_flooded |-> TRUE, is_near_flood |-> is_near_flood]
                  ELSE LET min_x == Max2(0, px - buffer)
                           max_x == Min2(shape1(flood_pixels), px + buffer + 1)
                           min_y == Max2(0, py - buffer)
                           max_y == Min2(shape0(flood_pixels), py + buffer + 1)
                       IN  ScanVertices(coordinates, flood_pixels, k + 1,
                               is_near_flood
                                 \/ AnyFlooded(flood_pixels, min_y, max_y, min_x, max_x))
             ELSE ScanVertices(coordinates, flood_pixels, k + 1, is_near_flood)

\* near-flood list filled by "if is_near_flood" in place of the elif
near_flood_roads_if(features, flood_pixels) ==
    SelectSeq(features,
        LAMBDA feature : ScanVertices(feature.coordinates, flood_pixels, 1, FALSE).is_near_flood)

\* lines 71-74
affected_roads(features, flood_pixels) ==
    SelectSeq(features,
        LAMBDA feature : ScanVertices(feature.coordinates, flood_pixels, 1, FALSE).is_flooded)

near_flood_roads(features, flood_pixels) ==
    SelectSeq(features,
        LAMBDA feature :
            LET m == ScanVertices(feature.coordinates, flood_pixels, 1, FALSE)
            IN  ~m.is_flooded /\ m.is_near_flood)

analyze_road_impact(roads_geojson, flood_pixels) ==
    [affected_roads |-> affected_roads(roads_geojson.features, flood_pixels),
     near_flood_roads |-> near_flood_roads(roads_geojson.features, flood_pixels)]

\* roads as overpass_to_geojson builds them: LineString features with an id
Geometries == SeqsUpTo(RoadPoints, MaxVertices) \ {<<>>}
FeatureLists ==
    {<<>>}
    \cup {<<[id |-> 1, coordinates |-> g]>> : g \in Geometries}
    \cup {<<[id |-> 1, coordinates |-> g], [id |-> 2, coordinates |-> h]>> :
            g \in Geometries, h \in Geometries}

NoRoadInput == [roads_geojson |-> [features |-> <<>>],
                flood_pixels |-> <<<<0>>>>]
NoRoadImpact == [done |-> FALSE, affected_roads |-> <<>>, near_flood_roads |-> <<>>]

AnalyzeRoadImpact ==
    /\ ~road_out.done
    /\ road_out' =
         LET r == analyze_road_impact(road_in.roads_geojson, road_in.flood_pixels)
         IN  [done |-> TRUE, affected_roads |-> r.affected_roads,
              near_flood_roads |-> r.near_flood_roads]
    /\ UNCHANGED road_in

----------------------------------------------------------------------------
(* Tile grid of a bounding box: generate_tiles *)

\* Coordinates are binary floating point numbers.  The model keeps the
\* arithmetic of IEEE 754 (every operation rounds its exact result to the
\* nearest representable number, ties to the even mantissa) with a mantissa of
\* MantBits bits in place of 53; numbers are counted in units of the smallest
\* difference the model tells apart.
MantBits == 3
MaxCoord == 12          \* largest magnitude of a bounding box edge
MaxTileSize == 3        \* largest tile size

RECURSIVE Pow2(_)
Pow2(n) == IF n = 0 THEN 1 ELSE 2 * Pow2(n - 1)

RECURSIVE BitLen(_)
BitLen(m) == IF m = 0 THEN 0 ELSE 1 + BitLen(m \div 2)

\* round-half-even of mant + rem/den, 0 <= rem < den
RoundHalfEven(mant, rem, den) ==
    IF 2 * rem < den THEN mant
    ELSE IF 2 * rem > den THEN mant + 1
    ELSE IF mant % 2 = 0 THEN mant ELSE mant + 1

\* the representable number nearest to the magnitude m
FlMag(m) ==
    IF BitLen(m) <= MantBits THEN m
    ELSE LET u == Pow2(BitLen(m) - MantBits)
         IN  RoundHalfEven(m \div u, m % u, u) * u

\* the float result of an operation whose exact result is x
Fl(x) == IF x >= 0 THEN FlMag(x) ELSE 0 - FlMag(0 - x)

\* smallest k with N * 2^k / D >= 2^(MantBits - 1)
RECURSIVE ShiftFor(_, _, _)
ShiftFor(N, D, k) ==
    IF (N * Pow2(k)) \div D >= Pow2(MantBits - 1) THEN k ELSE ShiftFor(N, D, k + 1)

\* ceil of the float quotient N / D, N >= 0 and D > 0
CeilFlDiv(N, D) ==
    IF N = 0 THEN 0
    ELSE IF BitLen(N \div D) >= MantBits
    THEN LET u == Pow2(BitLen(N \div D) - MantBits)
         IN  RoundHalfEven(N \div (D * u), N % (D * u), D * u) * u
    ELSE LET v == Pow2(ShiftFor(N, D, 1))
             m == RoundHalfEven((N * v) \div D, (N * v) % D, D)
         IN  (m + v - 1) \div v

\* np.arange(start, stop, step): ceil((stop - start) / step) numbers, the
\* first two start and start + step, number i then start + i * delta with
\* delta the difference of the first two
arange(start, stop, step) ==
    LET diff   == Fl(stop - start)
        length == IF diff <= 0 THEN 0 ELSE CeilFlDiv(diff, step)
        second == Fl(start + step)
        delta  == Fl(second - start)
    IN  [k \in 1..length |->
            IF k = 1 THEN start
            ELSE IF k = 2 THEN second
            ELSE Fl(start + Fl((k - 1) * delta))]

\* generate_tiles(bbox, tile_size_deg), bbox = (min_lon, min_lat, max_lon, max_lat)
generate_tiles(bbox, tile_size_deg) ==
    LET lon_steps == arange(bbox[1], bbox[3], tile_size_deg)
        lat_steps == arange(bbox[2], bbox[4], tile_size_deg)
        n_lat == Len(lat_steps)
    IN  [k \in 1..(Len(lon_steps) * n_lat) |->
            LET lon == lon_steps[((k - 1) \div n_lat) + 1]
                lat == lat_steps[((k - 1) % n_lat) + 1]
            IN  <<lon, lat, Fl(lon + tile_size_deg), Fl(lat + tile_size_deg)>>]

\* longitudes of either sign, latitudes north of the equator, as floats
Longitudes == {x \in (0 - MaxCoord)..MaxCoord : Fl(x) = x}
Latitudes  == {x \in 0..MaxCoord : Fl(x) = x}
TileSizes  == {x \in 1..MaxTileSize : Fl(x) = x}

NoTileInput == [bbox |-> <<0, 0, 1, 1>>, tile_size_deg |-> 1]
NoTiles == [done |-> FALSE, tiles |-> <<>>]

GenerateTiles ==
    /\ ~tile_out.done
    /\ tile_out' = [done |-> TRUE,
                    tiles |-> generate_tiles(tile_in.bbox, tile_in.tile_size_deg)]
    /\ UNCHANGED tile_in

----------------------------------------------------------------------------
(* Road names of flagged points: convert_coordinates_to_road_names *)

MaxSegments == 6        \* most flagged points handed over in the model

\* coordinates here are counted in units of 0.0005 degrees, so that the
\* proximity threshold of 0.001 degrees is 2
proximity_threshold == 2

\* flagged coordinates [lon, lat]
FlaggedPoints == {<<0, 0>>, <<0, 2>>, <<10, 1>>}

\* elements of an Overpass answer
WayHighStreet ==
    [type |-> "way", id |-> 1,
     geometry |-> <<[lon |-> 0, lat |-> 0], [lon |-> 4, lat |-> 0]>>,
     tags |-> [name |-> "High Street", highway |-> "primary"]]
WayUntagged ==
    [type |-> "way", id |-> 2, geometry |-> <<[lon |-> 0, lat |-> 3]>>,
     tags |-> [surface |-> "asphalt"]]
WayHighStreetEast ==
    [type |-> "way", id |-> 3, geometry |-> <<[lon |-> 10, lat |-> 0]>>,
     tags |-> [name |-> "High Street", highway |-> "secondary"]]
WayMotorway ==
    [type |-> "way", id |-> 4, geometry |-> <<[lon |-> 10, lat |-> 2]>>,
     tags |-> [name |-> "M18", highway |-> "motorway"]]
NodeElement == [type |-> "node", id |-> 5]

\* what get_road_data and overpass_to_geojson do with the request
RoadResponses ==
    {[kind |-> "fetch_error", elements |-> <<>>],
     [kind |-> "convert_error", elements |-> <<>>],
     [kind |-> "ok", elements |-> <<>>],
     [kind |-> "ok", elements |-> <<WayHighStreet>>],
     [kind |-> "ok", elements |-> <<WayHighStreet, NodeElement, WayUntagged>>],
     [kind |-> "ok", elements |-> <<WayHighStreet, WayHighStreetEast>>],
     [kind |-> "ok", elements |-> <<WayMotorway, WayHighStreetEast, WayUntagged>>]}

\* overpass_to_geojson (disaster_management.py 23-37)
overpass_to_geojson(elements) ==
    LET ways == SelectSeq(elements,
                    LAMBDA e : e.type = "way" /\ "geometry" \in DOMAIN e)
    IN  [k \in 1..Len(ways) |->
            [type |-> "LineString",
             coordinates |-> [j \in 1..Len(ways[k].geometry) |->
                                 <<ways[k].geometry[j].lon, ways[k].geometry[j].lat>>],
             properties |-> [id |-> ways[k].id] @@ ways[k].tags]]

\* lines 45-51: the vertices of feature k from vertex j on; best is
\* [closest_road, min_distance2], closest_road = 0 for None and distances
\* kept squared (min_distance2 = -1 for infinity)
RECURSIVE ScanRoadCoords(_, _, _, _, _, _)
ScanRoadCoords(lon, lat, features, k, j, best) ==
    IF j > Len(features[k].coordinates) THEN best
    ELSE LET road_lon == features[k].coordinates[j][1]
             road_lat == features[k].coordinates[j][2]
             distance2 == (lon - road_lon) * (lon - road_lon)
                            + (lat - road_lat) * (lat - road_lat)
         IN  ScanRoadCoords(lon, lat, features, k, j + 1,
                 IF best.min_distance2 = -1 \/ distance2 < best.min_distance2
                 THEN [closest_road |-> k, min_distance2 |-> distance2]
                 ELSE best)

\* lines 39-51: the loop over the features from feature k on
RECURSIVE FindClosestRoad(_, _, _, _, _)
FindClosestRoad(lon, lat, features, k, best) ==
    IF k > Len(features) THEN best
    ELSE FindClosestRoad(lon, lat, features, k + 1,
             IF features[k].type = "LineString"
             THEN ScanRoadCoords(lon, lat, features, k, 1, best)
             ELSE best)

\* line 53: closest_road and min_distance < 0.001
Attached(best) ==
    /\ best.closest_road # 0
    /\ best.min_distance2 < proximity_threshold * proximity_threshold

\* lines 54-64
road_name(feature) ==
    IF "name" \in DOMAIN feature.properties THEN feature.properties.name
    ELSE "Unnamed Road"
road_type(feature) ==
    IF "highway" \in DOMAIN feature.properties THEN feature.properties.highway
    ELSE "local"
road_desc(feature) ==
    IF road_type(feature) \in {"motorway", "trunk"}
    THEN <<road_name(feature), "(Major road)">>
    ELSE IF road_type(feature) \in {"primary", "secondary"}
    THEN <<road_name(feature), "(Main road)">>
    ELSE <<road_name(feature), "(Local road)">>

\* lines 66-76: road_groups, in insertion order, after one more point of feature
AddToGroup(road_groups, feature, lon, lat) ==
    LET at == {g \in 1..Len(road_groups) :
                  road_groups[g].description = road_desc(feature)}
        groups == IF at = {}
                  THEN Append(road_groups,
                           [name |-> road_name(feature), type |-> road_type(feature),
                            description |-> road_desc(feature),
                            affected_points |-> 0, coordinates |-> <<>>])
                  ELSE road_groups
        g == IF at = {} THEN Len(groups) ELSE CHOOSE x \in at : TRUE
    IN  [groups EXCEPT ![g].affected_points = @ + 1,
                       ![g].coordinates = Append(@, <<lat, lon>>)]

\* lines 35-76: the loop over the flagged points from point i on
RECURSIVE GroupByRoad(_, _, _, _)
GroupByRoad(affected_segments, features, i, road_groups) ==
    IF i > Len(affected_segments) THEN road_groups
    ELSE LET lon == affected_segments[i].coordinate[1]
             lat == affected_segments[i].coordinate[2]
             best == FindClosestRoad(lon, lat, features, 1,
                         [closest_road |-> 0, min_distance2 |-> -1])
         IN  GroupByRoad(affected_segments, features, i + 1,
                 IF Attached(best)
                 THEN AddToGroup(road_groups, features[best.closest_road], lon, lat)
                 ELSE road_groups)

\* a severity that turns at 5 points already
severity_from_five(affected_points) ==
    IF affected_points >= 5 THEN "Severely flooded" ELSE "Partially flooded"

\* line 80
severity(affected_points) ==
    IF affected_points > 5 THEN "Severely flooded" ELSE "Partially flooded"

\* lines 79-87
RoadImpactsOf(road_groups) ==
    [g \in 1..Len(road_groups) |->
        [description |-> road_groups[g].description,
         name |-> road_groups[g].name,
         severity |-> severity(road_groups[g].affected_points),
         affected_points |-> road_groups[g].affected_points,
         coordinates |-> road_groups[g].coordinates]]

\* an except branch that keeps going without an area bucket
NoAreaFallback(affected_segments) == <<>>

\* lines 89-98: the area bucket of the except branch
AreaFallback(affected_segments) ==
    <<[description |-> <<"Roads near Fishlake area">>,
       name |-> "Local roads",
       severity |-> "Multiple sections flooded",
       affected_points |-> Len(affected_segments),
       coordinates |-> [i \in 1..Len(affected_segments) |->
                           <<affected_segments[i].coordinate[2],
                             affected_segments[i].coordinate[1]>>]]>>

\* convert_coordinates_to_road_names(affected_segments, all_flood_rasters)
\* with what the road network provider answers
convert_coordinates_to_road_names(affected_segments, road_response) ==
    IF affected_segments = <<>> THEN <<>>
    ELSE IF road_response.kind # "ok" THEN AreaFallback(affected_segments)
    ELSE RoadImpactsOf(GroupByRoad(affected_segments,
                           overpass_to_geojson(road_response.elements), 1, <<>>))

\* flagged points as the analyzer records them
SegmentLists ==
    {[i \in 1..Len(cs) |-> [vehicle |-> 1, segment |-> i - 1, coordinate |-> cs[i]]] :
        cs \in SeqsUpTo(FlaggedPoints, MaxSegments)}

NoNamesInput == [affected_segments |-> <<>>,
                 road_response |-> [kind |-> "ok", elements |-> <<>>]]
NoRoadImpacts == [done |-> FALSE, road_impacts |-> <<>>]

ConvertToRoadNames ==
    /\ ~names_out.done
    /\ names_out' =
         [done |-> TRUE,
          road_impacts |-> convert_coordinates_to_road_names(
                               names_in.affected_segments, names_in.road_response)]
    /\ UNCHANGED names_in

----------------------------------------------------------------------------
(* One hazard analysis run: render_improved_hazard_analysis, lines 238-304 *)

MaxRunTiles == 2        \* most tiles of the grid in a run of the model

ZeroRaster ==
    [crs |-> "EPSG:4326", bounds |-> <<<<-1, 0>>, <<1, 2>>>>,
     transform |-> [a |-> 1, c |-> 0, e |-> -1, f |-> 1],
     pixels |-> <<<<0, 0>>, <<0, 0>>>>]

\* rasters the provider may answer with in a run: two of the catalog (one
\* column with lat 1 flooded; 2 x 2 flooded but for one pixel) and a dry one
RunRasters ==
    {r \in RasterCatalog : r.crs = "EPSG:4326" /\ r.transform.c = 0} \cup {ZeroRaster}

\* what get_flood_overlay_from_n8n returns for a tile: None after any
\* provider failure, else the raster
TileOutcomes ==
    {[status |-> "failed"]} \cup {[status |-> "ok", data |-> r] : r \in RunRasters}

\* process_flood_tiles (flood_detection.py 370-397): the rasters of the tiles
\* that returned one, in tile order
process_flood_tiles(tile_results) ==
    LET found == SelectSeq(tile_results, LAMBDA t : t.status = "ok")
    IN  [k \in 1..Len(found) |-> found[k].data]

\* lines 271-277: the loop over the vehicles, from the first of vehicle_ids
\* on; acc is [total_affected, all_affected_segments]
RECURSIVE AnalyzeEachVehicle(_, _, _, _, _)
AnalyzeEachVehicle(vehicle_ids, stored, all_flood_rasters, directions, acc) ==
    IF vehicle_ids = <<>> THEN acc
    ELSE LET vehicle_id == vehicle_ids[1]
             affected_segments ==
                 analyze_road_flood_impact_improved(
                     [v \in {vehicle_id} |-> stored[vehicle_id]],
                     all_flood_rasters,
                     [v \in {vehicle_id} |-> directions[vehicle_id]])
         IN  AnalyzeEachVehicle(Tail(vehicle_ids), stored, all_flood_rasters, directions,
                 IF affected_segments # <<>>
                 THEN [total_affected |-> acc.total_affected + 1,
                       all_affected_segments |->
                           acc.all_affected_segments \o affected_segments]
                 ELSE acc)

\* a flag that is raised by every run
flood_data_always(all_flood_rasters) == TRUE

\* line 286: bool(all_flood_rasters)
flood_data_found(all_flood_rasters) == all_flood_rasters # <<>>

\* lines 240-290: the result a run stores in improved_analysis_results
AnalysisResults(stored, tile_results, directions, road_response) ==
    LET all_flood_rasters == process_flood_tiles(tile_results)
        acc == AnalyzeEachVehicle(SortedSeq(DOMAIN stored), stored, all_flood_rasters,
                   directions, [total_affected |-> 0, all_affected_segments |-> <<>>])
    IN  [total_affected |-> acc.total_affected,
         flood_data_found |-> flood_data_found(all_flood_rasters),
         all_flood_rasters |-> all_flood_rasters,
         road_impacts |-> convert_coordinates_to_road_names(
                              acc.all_affected_segments, road_response),
         affected_segments |-> acc.all_affected_segments]

\* stored routes: depot, stop, depot
RunRoutes == {<<d, p, d>> : d \in {<<0, 0>>, <<1, 0>>}, p \in Points \ {<<1, 0>>}} \ {<<<<0, 0>>, <<0, 0>>, <<0, 0>>>>}
SecondRoute == <<<<1, 0>>, <<0, 1>>, <<1, 0>>>>

\* what get_directions answers for a route in a run
RunDirections(coords) ==
    {[kind |-> "raise", features |-> <<>>],
     [kind |-> "ok", features |-> <<>>],
     [kind |-> "ok", features |-> <<[type |-> "LineString", coordinates |-> Dense(coords)]>>]}

RunRoadResponses ==
    {r \in RoadResponses : r.kind = "fetch_error" \/ Len(r.elements) \in {0, 1, 3}}

NoRunInput ==
    [route_data |-> [v \in {0} |-> [coords |-> SecondRoute]],
     tile_results |-> <<>>,
     directions |-> [v \in {0} |-> [kind |-> "raise", features |-> <<>>]],
     road_response |-> [kind |-> "ok", elements |-> <<>>]]
NoRunResult == [done |-> FALSE, results |-> <<>>]

RunAnalysis ==
    /\ ~run_out.done
    /\ run_out' = [done |-> TRUE,
                   results |-> AnalysisResults(run_in.route_data, run_in.tile_results,
                                               run_in.directions, run_in.road_response)]
    /\ UNCHANGED <<run_in, run_shown>>

\* an alternative that ends where the route ends, at the closing depot
end_coord_last(original_route_coords) ==
    original_route_coords[Len(original_route_coords)]

\* create_alternative_route_visualizations (lines 103-173): the two waypoint
\* lists it builds and returns; coordinates are [lon, lat] in hundredths of a
\* degree here (0.05 is 5)
end_coord(original_route_coords) ==
    IF Len(original_route_coords) > 2
    THEN original_route_coords[Len(original_route_coords) - 1]
    ELSE original_route_coords[Len(original_route_coords)]

create_alternative_route_visualizations(original_route_coords) ==
    LET start_coord == original_route_coords[1]
        end == end_coord(original_route_coords)
    IN  <<[name |-> "Southern Bypass (A614)",
           waypoints |-> <<start_coord,
                           <<start_coord[1] + 5, start_coord[2] - 2>>,
                           <<end[1] + 3, end[2] - 1>>,
                           end>>],
          [name |-> "Western Detour (M18/A1)",
           waypoints |-> <<start_coord,
                           <<start_coord[1] - 8, start_coord[2] + 1>>,
                           <<end[1] - 5, end[2] + 2>>,
                           end>>]>>

\* line 341: results["total_affected"] > 0
alternatives_wanted(results, vehicle_id) == results.total_affected > 0

\* lines 326-345: the vehicles whose route is drawn (get_directions returned
\* for them) get the alternatives when flooding was detected
DrawnAlternatives(results, stored, returned) ==
    [v \in {w \in DOMAIN stored : w \in returned /\ alternatives_wanted(results, w)} |->
        create_alternative_route_visualizations(stored[v].coords)]

NotShown == [shown |-> FALSE, alternatives |-> <<>>]

\* lines 306-376 after a run; get_directions is cached (st.cache_data), an
\* answer it gave to the analyzer is returned again, a request that raised is
\* sent again
DisplayResults ==
    /\ run_out.done
    /\ ~run_shown.shown
    /\ \E returned \in SUBSET (DOMAIN run_in.route_data) :
          /\ \A v \in DOMAIN run_in.route_data :
                run_in.directions[v].kind = "ok" => v \in returned
          /\ run_shown' = [shown |-> TRUE,
                           alternatives |-> DrawnAlternatives(run_out.results,
                                                run_in.route_data, returned)]
    /\ UNCHANGED <<run_in, run_out>>

----------------------------------------------------------------------------
(* Hazard tab session: every script run renders the route planner tab and
   then the disaster management tab (app.py 50-90); st.rerun ends the run *)

MaxClicks == 1          \* clicks on Analyze within a session of the model
HazardLabels == {0, 1, 2}  \* locations used within a hazard session

\* lines 294-301 without the error field; the value of an absent entry here
ErrorResults ==
    [total_affected |-> 0, flood_data_found |-> FALSE, all_flood_rasters |-> <<>>,
     road_impacts |-> <<>>, affected_segments |-> <<>>]

NoStoredResults == [present |-> FALSE, error |-> FALSE, value |-> ErrorResults]
NoProvenance == [routes |-> <<>>, run |-> 0]

\* what the providers answer during a run of the session
HazardTileResults ==
    {<<[status |-> "failed"]>>} \cup
    {<<[status |-> "ok", data |-> r]>> : r \in {q \in RunRasters : Len(q.pixels[1]) = 2}}
HazardRoadResponses == {r \in RunRoadResponses : r.kind = "fetch_error" \/ Len(r.elements) = 1}
HazardDirections(stored) ==
    {[v \in DOMAIN stored |-> d] :
        d \in {[kind |-> "raise", features |-> <<>>], [kind |-> "ok", features |-> <<>>]}}

\* how the try block of lines 240-290 ends: it completes, it raises an
\* Exception, or a BaseException leaves it (the script runner stops a running
\* script with one when the user interacts meanwhile): only the finally
\* clause runs for the last
RunEndings == {"completed", "raised", "interrupted"}

\* the route planner tab of the script run
PlannerTab ==
    /\ script_pc = "planner"
    /\ RenderWith(HazardLabels, {1})
    /\ script_pc' = "hazard"
    /\ last_step' = "planner"
    /\ UNCHANGED <<run_improved_analysis, improved_analysis_results, provenance,
                   analyze_clicks, analysis_runs>>

RoutesStored == route_data.present /\ route_data.routes # <<>>

\* lines 181-183: no route, the tab returns
HazardNoRoute ==
    /\ ~RoutesStored
    /\ last_step' = "no_route"
    /\ UNCHANGED <<run_improved_analysis, improved_analysis_results, provenance,
                   analyze_clicks, analysis_runs>>

\* lines 223-226: Analyze Route Safety was clicked
ClickAnalyze ==
    /\ RoutesStored
    /\ analyze_clicks < MaxClicks
    /\ run_improved_analysis' = "True"
    /\ analyze_clicks' = analyze_clicks + 1
    /\ last_step' = "analyze_click"
    /\ UNCHANGED <<improved_analysis_results, provenance, analysis_runs>>

\* lines 228-232: Clear Analysis was clicked
ClickClear ==
    /\ RoutesStored
    /\ run_improved_analysis' = "absent"
    /\ improved_analysis_results' = NoStoredResults
    /\ provenance' = NoProvenance
    /\ last_step' = "clear_click"
    /\ UNCHANGED <<analyze_clicks, analysis_runs>>

\* lines 283-301: what improved_analysis_results holds when the try statement
\* is left
StoredAfter(ending, stored_before, computed) ==
    IF ending = "completed" THEN [present |-> TRUE, error |-> FALSE, value |-> computed]
    ELSE IF ending = "raised" THEN [present |-> TRUE, error |-> TRUE, value |-> ErrorResults]
    ELSE stored_before

\* lines 238-304: the flag is set, the analysis runs; finally resets the flag
\* and reruns
RunFlagged ==
    /\ RoutesStored
    /\ run_improved_analysis = "True"
    /\ \E ending \in RunEndings, tile_results \in HazardTileResults,
          directions \in HazardDirections(route_data.routes),
          road_response \in HazardRoadResponses :
          /\ improved_analysis_results' =
                StoredAfter(ending, improved_analysis_results,
                            AnalysisResults(route_data.routes, tile_results,
                                            directions, road_response))
          /\ provenance' = IF ending = "interrupted" THEN provenance
                           ELSE [routes |-> route_data.routes, run |-> analysis_runs + 1]
          /\ last_step' = "run_" \o ending
    /\ run_improved_analysis' = "False"
    /\ analysis_runs' = analysis_runs + 1
    /\ UNCHANGED analyze_clicks

\* lines 306-379: no button clicked, no run pending; the stored results, if
\* any, are drawn over the routes of st.session_state.route_data
ShowResults ==
    /\ RoutesStored
    /\ run_improved_analysis # "True"
    /\ last_step' = IF improved_analysis_results.present THEN "displayed" ELSE "prompted"
    /\ UNCHANGED <<run_improved_analysis, improved_analysis_results, provenance,
                   analyze_clicks, analysis_runs>>

\* render_improved_hazard_analysis in the script run
HazardTab ==
    /\ script_pc = "hazard"
    /\ script_pc' = "planner"
    /\ \/ HazardNoRoute
       \/ ClickAnalyze
       \/ ClickClear
       \/ RunFlagged
       \/ ShowResults
    /\ UNCHANGED planVars

----------------------------------------------------------------------------
(* Backend start-up: ensure_files_exist, main.py 558-650 *)

\* files_to_check in dict order: the config, then the checkpoint
Assets == <<"config", "checkpoint">>

\* what the call finds for an asset: the file exists locally, what
\* s3_client.download_file and download_file do, whether a fallback URL is
\* set, what the asset's patch function does
AssetCases ==
    [exists : BOOLEAN, minio : {"ok", "error"}, fallback_url : BOOLEAN,
     fallback : {"ok", "error"}, patch : {"ok", "raises"}]

NoEnsureInput ==
    [credentials |-> FALSE, client_ok |-> FALSE,
     assets |-> [k \in 1..Len(Assets) |->
                    [exists |-> TRUE, minio |-> "ok", fallback_url |-> TRUE,
                     fallback |-> "ok", patch |-> "ok"]]]

NoAssetLog == [tried |-> <<>>, downloaded |-> FALSE, patched |-> 0]

NotStarted ==
    [pc |-> "idle", i |-> 0, s3_client |-> FALSE, exit_status |-> 0,
     log |-> [k \in 1..Len(Assets) |-> NoAssetLog]]

\* lines 563-590: files_to_check and the MinIO client
EnsureStart ==
    /\ ens.pc = "idle"
    /\ ens' = [ens EXCEPT !.pc = "loop", !.i = 1,
                          !.s3_client = ens_in.credentials /\ ens_in.client_ok]
    /\ UNCHANGED ens_in

\* a file that is there already is left unpatched
patch_downloads_only(exists) == ~exists

\* lines 636-648: the patch function is called in both branches
patch_applies(exists) == TRUE

\* lines 597-631: the sources tried for a missing file, in order, and whether
\* one of them delivered it
Download(s3_client, case) ==
    LET from_minio == s3_client /\ case.minio = "ok"
        try_fallback == ~from_minio /\ case.fallback_url
    IN  [tried |-> (IF s3_client THEN <<"minio">> ELSE <<>>)
                     \o (IF try_fallback THEN <<"fallback">> ELSE <<>>),
         downloaded |-> from_minio \/ (try_fallback /\ case.fallback = "ok")]

\* lines 592-648: one iteration of the loop over files_to_check
EnsureAsset ==
    /\ ens.pc = "loop"
    /\ LET case == ens_in.assets[ens.i]
           d == IF case.exists THEN [tried |-> <<>>, downloaded |-> FALSE]
                ELSE Download(ens.s3_client, case)
           available == case.exists \/ d.downloaded
           patched == available /\ patch_applies(case.exists)
       IN  ens' = [ens EXCEPT
                     !.log[ens.i] = [tried |-> d.tried, downloaded |-> d.downloaded,
                                     patched |-> IF patched THEN 1 ELSE 0],
                     !.pc = IF ~available THEN "exited"
                            ELSE IF patched /\ case.patch = "raises" THEN "raised"
                            ELSE IF ens.i = Len(Assets) THEN "returned"
                            ELSE "loop",
                     !.exit_status = IF ~available THEN 1 ELSE 0,
                     !.i = ens.i + 1]
    /\ UNCHANGED ens_in

EnsureStep == EnsureStart \/ EnsureAsset

----------------------------------------------------------------------------
(* Specifications *)

CapNext == SetUpCapacities /\ UNCHANGED <<planVars, cacheVars, anVars, roadVars, tileVars, sessVars, namesVars, runVars, lookVars, hzVars, ensVars>>

PlanNext == PlanRequest /\ UNCHANGED <<capVars, cacheVars, anVars, roadVars, tileVars, sessVars, namesVars, runVars, lookVars, hzVars, ensVars>>

CacheNext == CacheStep /\ UNCHANGED <<capVars, planVars, anVars, roadVars, tileVars, sessVars, namesVars, runVars, lookVars, hzVars, ensVars>>

AnalyzeNext == Analyze /\ UNCHANGED <<capVars, planVars, cacheVars, roadVars, tileVars, sessVars, namesVars, runVars, lookVars, hzVars, ensVars>>

RoadNext == AnalyzeRoadImpact /\ UNCHANGED <<capVars, planVars, cacheVars, anVars, tileVars, sessVars, namesVars, runVars, lookVars, hzVars, ensVars>>

SessionNext == SessionRender /\ UNCHANGED <<capVars, cacheVars, anVars, roadVars, tileVars, namesVars, runVars, lookVars, hzVars, ensVars>>

NamesNext == ConvertToRoadNames /\ UNCHANGED <<capVars, planVars, cacheVars, anVars, roadVars, tileVars, sessVars, runVars, lookVars, hzVars, ensVars>>

LookupNext == LookupStep /\ UNCHANGED <<capVars, planVars, configured, pft, anVars, roadVars, tileVars, sessVars, namesVars, runVars, hzVars, ensVars>>

HazardNext == (PlannerTab \/ HazardTab) /\ UNCHANGED <<capVars, cacheVars, anVars, roadVars, tileVars, sessVars, namesVars, runVars, lookVars, ensVars>>

EnsureNext == EnsureStep /\ UNCHANGED <<capVars, planVars, cacheVars, anVars, roadVars, tileVars, sessVars, namesVars, runVars, lookVars, hzVars>>

RunNext == (RunAnalysis \/ DisplayResults) /\ UNCHANGED <<capVars, planVars, cacheVars, anVars, roadVars, tileVars, sessVars, namesVars, lookVars, hzVars, ensVars>>

TilesNext == GenerateTiles /\ UNCHANGED <<capVars, planVars, cacheVars, anVars, roadVars, sessVars, namesVars, runVars, lookVars, hzVars, ensVars>>

CapInit ==
    /\ cap_in \in CapInputs
    /\ cap_out = NoCapacities
    /\ distance_matrix \in {CHOOSE m \in Matrices : TRUE}
    /\ route_data = Absent
    /\ rp = NoRequest
    /\ configured = TRUE
    /\ overlay_cache = [key \in Keys |-> NoEntry]
    /\ url_cache = [key \in Keys |-> NoEntry]
    /\ provider_calls = [key \in Keys |-> NoCalls]
    /\ pft = NoProcess
    /\ an_in = NoAnalyzeInput
    /\ an_out = NotAnalyzed
    /\ road_in = NoRoadInput
    /\ road_out = NoRoadImpact
    /\ tile_in = NoTileInput
    /\ tile_out = NoTiles
    /\ route_before = FALSE
    /\ names_in = NoNamesInput
    /\ names_out = NoRoadImpacts
    /\ run_in = NoRunInput
    /\ run_out = NoRunResult
    /\ run_shown = NotShown
    /\ lookups = [r \in Requests |-> NoLookup]
    /\ compute_lock = [key \in Keys |-> 0]
    /\ script_pc = "planner"
    /\ run_improved_analysis = "absent"
    /\ improved_analysis_results = NoStoredResults
    /\ provenance = NoProvenance
    /\ last_step = "none"
    /\ analyze_clicks = 0
    /\ analysis_runs = 0
    /\ ens_in = NoEnsureInput
    /\ ens = NotStarted

EnsureInit ==
    /\ cap_in \in {CHOOSE c \in CapInputs : TRUE}
    /\ cap_out = NoCapacities
    /\ distance_matrix \in {CHOOSE m \in Matrices : TRUE}
    /\ route_data = Absent
    /\ rp = NoRequest
    /\ configured = TRUE
    /\ overlay_cache = [key \in Keys |-> NoEntry]
    /\ url_cache = [key \in Keys |-> NoEntry]
    /\ provider_calls = [key \in Keys |-> NoCalls]
    /\ pft = NoProcess
    /\ an_in = NoAnalyzeInput
    /\ an_out = NotAnalyzed
    /\ road_in = NoRoadInput
    /\ road_out = NoRoadImpact
    /\ tile_in = NoTileInput
    /\ tile_out = NoTiles
    /\ route_before = FALSE
    /\ names_in = NoNamesInput
    /\ names_out = NoRoadImpacts
    /\ run_in = NoRunInput
    /\ run_out = NoRunResult
    /\ run_shown = NotShown
    /\ lookups = [r \in Requests |-> NoLookup]
    /\ compute_lock = [key \in Keys |-> 0]
    /\ script_pc = "planner"
    /\ run_improved_analysis = "absent"
    /\ improved_analysis_results = NoStoredResults
    /\ provenance = NoProvenance
    /\ last_step = "none"
    /\ analyze_clicks = 0
    /\ analysis_runs = 0
    /\ \E credentials \in BOOLEAN, client_ok \in BOOLEAN :
          \E assets \in [1..Len(Assets) -> AssetCases] :
             ens_in = [credentials |-> credentials, client_ok |-> client_ok,
                       assets |-> assets]
    /\ ens = NotStarted

RunInit ==
    /\ cap_in \in {CHOOSE c \in CapInputs : TRUE}
    /\ cap_out = NoCapacities
    /\ distance_matrix \in {CHOOSE m \in Matrices : TRUE}
    /\ route_data = Absent
    /\ rp = NoRequest
    /\ configured = TRUE
    /\ overlay_cache = [key \in Keys |-> NoEntry]
    /\ url_cache = [key \in Keys |-> NoEntry]
    /\ provider_calls = [key \in Keys |-> NoCalls]
    /\ pft = NoProcess
    /\ an_in = NoAnalyzeInput
    /\ an_out = NotAnalyzed
    /\ road_in = NoRoadInput
    /\ road_out = NoRoadImpact
    /\ tile_in = NoTileInput
    /\ tile_out = NoTiles
    /\ route_before = FALSE
    /\ names_in = NoNamesInput
    /\ names_out = NoRoadImpacts
    /\ \E first \in RunRoutes, second \in {<<>>, SecondRoute},
          tile_results \in SeqsUpTo(TileOutcomes, MaxRunTiles),
          road_response \in RunRoadResponses :
          \E d0 \in RunDirections(first), d1 \in RunDirections(SecondRoute) :
             /\ second = <<>> => d1.kind = "raise"
             /\ run_in =
                  [route_data |->
                       [v \in (IF second = <<>> THEN {0} ELSE {0, 1}) |->
                           [coords |-> IF v = 0 THEN first ELSE second]],
                   tile_results |-> tile_results,
                   directions |->
                       [v \in (IF second = <<>> THEN {0} ELSE {0, 1}) |->
                           IF v = 0 THEN d0 ELSE d1],
                   road_response |-> road_response]
    /\ run_out = NoRunResult
    /\ run_shown = NotShown
    /\ lookups = [r \in Requests |-> NoLookup]
    /\ compute_lock = [key \in Keys |-> 0]
    /\ script_pc = "planner"
    /\ run_improved_analysis = "absent"
    /\ improved_analysis_results = NoStoredResults
    /\ provenance = NoProvenance
    /\ last_step = "none"
    /\ analyze_clicks = 0
    /\ analysis_runs = 0
    /\ ens_in = NoEnsureInput
    /\ ens = NotStarted

NamesInit ==
    /\ cap_in \in {CHOOSE c \in CapInputs : TRUE}
    /\ cap_out = NoCapacities
    /\ distance_matrix \in {CHOOSE m \in Matrices : TRUE}
    /\ route_data = Absent
    /\ rp = NoRequest
    /\ configured = TRUE
    /\ overlay_cache = [key \in Keys |-> NoEntry]
    /\ url_cache = [key \in Keys |-> NoEntry]
    /\ provider_calls = [key \in Keys |-> NoCalls]
    /\ pft = NoProcess
    /\ an_in = NoAnalyzeInput
    /\ an_out = NotAnalyzed
    /\ road_in = NoRoadInput
    /\ road_out = NoRoadImpact
    /\ tile_in = NoTileInput
    /\ tile_out = NoTiles
    /\ route_before = FALSE
    /\ \E affected_segments \in SegmentLists, road_response \in RoadResponses :
          names_in = [affected_segments |-> affected_segments,
                      road_response |-> road_response]
    /\ names_out = NoRoadImpacts
    /\ run_in = NoRunInput
    /\ run_out = NoRunResult
    /\ run_shown = NotShown
    /\ lookups = [r \in Requests |-> NoLookup]
    /\ compute_lock = [key \in Keys |-> 0]
    /\ script_pc = "planner"
    /\ run_improved_analysis = "absent"
    /\ improved_analysis_results = NoStoredResults
    /\ provenance = NoProvenance
    /\ last_step = "none"
    /\ analyze_clicks = 0
    /\ analysis_runs = 0
    /\ ens_in = NoEnsureInput
    /\ ens = NotStarted

PlanInit ==
    /\ cap_in \in {CHOOSE c \in CapInputs : TRUE}
    /\ cap_out = NoCapacities
    /\ distance_matrix \in Matrices
    /\ route_data = Absent
    /\ rp = NoRequest
    /\ configured = TRUE
    /\ overlay_cache = [key \in Keys |-> NoEntry]
    /\ url_cache = [key \in Keys |-> NoEntry]
    /\ provider_calls = [key \in Keys |-> NoCalls]
    /\ pft = NoProcess
    /\ an_in = NoAnalyzeInput
    /\ an_out = NotAnalyzed
    /\ road_in = NoRoadInput
    /\ road_out = NoRoadImpact
    /\ tile_in = NoTileInput
    /\ tile_out = NoTiles
    /\ route_before = FALSE
    /\ names_in = NoNamesInput
    /\ names_out = NoRoadImpacts
    /\ run_in = NoRunInput
    /\ run_out = NoRunResult
    /\ run_shown = NotShown
    /\ lookups = [r \in Requests |-> NoLookup]
    /\ compute_lock = [key \in Keys |-> 0]
    /\ script_pc = "planner"
    /\ run_improved_analysis = "absent"
    /\ improved_analysis_results = NoStoredResults
    /\ provenance = NoProvenance
    /\ last_step = "none"
    /\ analyze_clicks = 0
    /\ analysis_runs = 0
    /\ ens_in = NoEnsureInput
    /\ ens = NotStarted

SessionInit ==
    /\ cap_in \in {CHOOSE c \in CapInputs : TRUE}
    /\ cap_out = NoCapacities
    /\ distance_matrix \in Matrices
    /\ route_data = Absent
    /\ rp = NoRequest
    /\ configured = TRUE
    /\ overlay_cache = [key \in Keys |-> NoEntry]
    /\ url_cache = [key \in Keys |-> NoEntry]
    /\ provider_calls = [key \in Keys |-> NoCalls]
    /\ pft = NoProcess
    /\ an_in = NoAnalyzeInput
    /\ an_out = NotAnalyzed
    /\ road_in = NoRoadInput
    /\ road_out = NoRoadImpact
    /\ tile_in = NoTileInput
    /\ tile_out = NoTiles
    /\ route_before = FALSE
    /\ names_in = NoNamesInput
    /\ names_out = NoRoadImpacts
    /\ run_in = NoRunInput
    /\ run_out = NoRunResult
    /\ run_shown = NotShown
    /\ lookups = [r \in Requests |-> NoLookup]
    /\ compute_lock = [key \in Keys |-> 0]
    /\ script_pc = "planner"
    /\ run_improved_analysis = "absent"
    /\ improved_analysis_results = NoStoredResults
    /\ provenance = NoProvenance
    /\ last_step = "none"
    /\ analyze_clicks = 0
    /\ analysis_runs = 0
    /\ ens_in = NoEnsureInput
    /\ ens = NotStarted

HazardInit ==
    /\ cap_in \in {CHOOSE c \in CapInputs : TRUE}
    /\ cap_out = NoCapacities
    /\ distance_matrix \in {CHOOSE m \in Matrices : TRUE}
    /\ route_data = Absent
    /\ rp = NoRequest
    /\ configured = TRUE
    /\ overlay_cache = [key \in Keys |-> NoEntry]
    /\ url_cache = [key \in Keys |-> NoEntry]
    /\ provider_calls = [key \in Keys |-> NoCalls]
    /\ pft = NoProcess
    /\ an_in = NoAnalyzeInput
    /\ an_out = NotAnalyzed
    /\ road_in = NoRoadInput
    /\ road_out = NoRoadImpact
    /\ tile_in = NoTileInput
    /\ tile_out = NoTiles
    /\ route_before = FALSE
    /\ names_in = NoNamesInput
    /\ names_out = NoRoadImpacts
    /\ run_in = NoRunInput
    /\ run_out = NoRunResult
    /\ run_shown = NotShown
    /\ lookups = [r \in Requests |-> NoLookup]
    /\ compute_lock = [key \in Keys |-> 0]
    /\ script_pc = "planner"
    /\ run_improved_analysis = "absent"
    /\ improved_analysis_results = NoStoredResults
    /\ provenance = NoProvenance
    /\ last_step = "none"
    /\ analyze_clicks = 0
    /\ analysis_runs = 0
    /\ ens_in = NoEnsureInput
    /\ ens = NotStarted

CacheInit ==
    /\ cap_in \in {CHOOSE c \in CapInputs : TRUE}
    /\ cap_out = NoCapacities
    /\ distance_matrix \in {CHOOSE m \in Matrices : TRUE}
    /\ route_data = Absent
    /\ rp = NoRequest
    /\ configured \in BOOLEAN
    /\ overlay_cache = [key \in Keys |-> NoEntry]
    /\ url_cache = [key \in Keys |-> NoEntry]
    /\ provider_calls = [key \in Keys |-> NoCalls]
    /\ pft = NoProcess
    /\ an_in = NoAnalyzeInput
    /\ an_out = NotAnalyzed
    /\ road_in = NoRoadInput
    /\ road_out = NoRoadImpact
    /\ tile_in = NoTileInput
    /\ tile_out = NoTiles
    /\ route_before = FALSE
    /\ names_in = NoNamesInput
    /\ names_out = NoRoadImpacts
    /\ run_in = NoRunInput
    /\ run_out = NoRunResult
    /\ run_shown = NotShown
    /\ lookups = [r \in Requests |-> NoLookup]
    /\ compute_lock = [key \in Keys |-> 0]
    /\ script_pc = "planner"
    /\ run_improved_analysis = "absent"
    /\ improved_analysis_results = NoStoredResults
    /\ provenance = NoProvenance
    /\ last_step = "none"
    /\ analyze_clicks = 0
    /\ analysis_runs = 0
    /\ ens_in = NoEnsureInput
    /\ ens = NotStarted

LookupInit ==
    /\ cap_in \in {CHOOSE c \in CapInputs : TRUE}
    /\ cap_out = NoCapacities
    /\ distance_matrix \in {CHOOSE m \in Matrices : TRUE}
    /\ route_data = Absent
    /\ rp = NoRequest
    /\ configured \in BOOLEAN
    /\ overlay_cache = [key \in Keys |-> NoEntry]
    /\ url_cache = [key \in Keys |-> NoEntry]
    /\ provider_calls = [key \in Keys |-> NoCalls]
    /\ pft = NoProcess
    /\ an_in = NoAnalyzeInput
    /\ an_out = NotAnalyzed
    /\ road_in = NoRoadInput
    /\ road_out = NoRoadImpact
    /\ tile_in = NoTileInput
    /\ tile_out = NoTiles
    /\ route_before = FALSE
    /\ names_in = NoNamesInput
    /\ names_out = NoRoadImpacts
    /\ run_in = NoRunInput
    /\ run_out = NoRunResult
    /\ run_shown = NotShown
    /\ lookups = [r \in Requests |-> NoLookup]
    /\ compute_lock = [key \in Keys |-> 0]
    /\ script_pc = "planner"
    /\ run_improved_analysis = "absent"
    /\ improved_analysis_results = NoStoredResults
    /\ provenance = NoProvenance
    /\ last_step = "none"
    /\ analyze_clicks = 0
    /\ analysis_runs = 0
    /\ ens_in = NoEnsureInput
    /\ ens = NotStarted

AnalyzeInit ==
    /\ cap_in \in {CHOOSE c \in CapInputs : TRUE}
    /\ cap_out = NoCapacities
    /\ distance_matrix \in {CHOOSE m \in Matrices : TRUE}
    /\ route_data = Absent
    /\ rp = NoRequest
    /\ configured = TRUE
    /\ overlay_cache = [key \in Keys |-> NoEntry]
    /\ url_cache = [key \in Keys |-> NoEntry]
    /\ provider_calls = [key \in Keys |-> NoCalls]
    /\ pft = NoProcess
    /\ \E vehicle_id \in VehicleIds, coords \in RouteCoords, rasters \in RasterLists :
          \E d \in Directions(coords) :
              an_in = AnalyzeInput(vehicle_id, coords, rasters, d)
    /\ an_out = NotAnalyzed
    /\ road_in = NoRoadInput
    /\ road_out = NoRoadImpact
    /\ tile_in = NoTileInput
    /\ tile_out = NoTiles
    /\ route_before = FALSE
    /\ names_in = NoNamesInput
    /\ names_out = NoRoadImpacts
    /\ run_in = NoRunInput
    /\ run_out = NoRunResult
    /\ run_shown = NotShown
    /\ lookups = [r \in Requests |-> NoLookup]
    /\ compute_lock = [key \in Keys |-> 0]
    /\ script_pc = "planner"
    /\ run_improved_analysis = "absent"
    /\ improved_analysis_results = NoStoredResults
    /\ provenance = NoProvenance
    /\ last_step = "none"
    /\ analyze_clicks = 0
    /\ analysis_runs = 0
    /\ ens_in = NoEnsureInput
    /\ ens = NotStarted

RoadInit ==
    /\ cap_in \in {CHOOSE c \in CapInputs : TRUE}
    /\ cap_out = NoCapacities
    /\ distance_matrix \in {CHOOSE m \in Matrices : TRUE}
    /\ route_data = Absent
    /\ rp = NoRequest
    /\ configured = TRUE
    /\ overlay_cache = [key \in Keys |-> NoEntry]
    /\ url_cache = [key \in Keys |-> NoEntry]
    /\ provider_calls = [key \in Keys |-> NoCalls]
    /\ pft = NoProcess
    /\ an_in = NoAnalyzeInput
    /\ an_out = NotAnalyzed
    /\ \E features \in FeatureLists, flood_pixels \in FloodPixels :
          road_in = [roads_geojson |-> [features |-> features],
                     flood_pixels |-> flood_pixels]
    /\ road_out = NoRoadImpact
    /\ tile_in = NoTileInput
    /\ tile_out = NoTiles
    /\ route_before = FALSE
    /\ names_in = NoNamesInput
    /\ names_out = NoRoadImpacts
    /\ run_in = NoRunInput
    /\ run_out = NoRunResult
    /\ run_shown = NotShown
    /\ lookups = [r \in Requests |-> NoLookup]
    /\ compute_lock = [key \in Keys |-> 0]
    /\ script_pc = "planner"
    /\ run_improved_analysis = "absent"
    /\ improved_analysis_results = NoStoredResults
    /\ provenance = NoProvenance
    /\ last_step = "none"
    /\ analyze_clicks = 0
    /\ analysis_runs = 0
    /\ ens_in = NoEnsureInput
    /\ ens = NotStarted

TilesInit ==
    /\ cap_in \in {CHOOSE c \in CapInputs : TRUE}
    /\ cap_out = NoCapacities
    /\ distance_matrix \in {CHOOSE m \in Matrices : TRUE}
    /\ route_data = Absent
    /\ rp = NoRequest
    /\ configured = TRUE
    /\ overlay_cache = [key \in Keys |-> NoEntry]
    /\ url_cache = [key \in Keys |-> NoEntry]
    /\ provider_calls = [key \in Keys |-> NoCalls]
    /\ pft = NoProcess
    /\ an_in = NoAnalyzeInput
    /\ an_out = NotAnalyzed
    /\ road_in = NoRoadInput
    /\ road_out = NoRoadImpact
    /\ \E min_lon \in Longitudes, max_lon \in Longitudes,
          min_lat \in Latitudes, max_lat \in Latitudes, tile_size_deg \in TileSizes :
          /\ min_lon < max_lon
          /\ min_lat < max_lat
          /\ tile_in = [bbox |-> <<min_lon, min_lat, max_lon, max_lat>>,
                        tile_size_deg |-> tile_size_deg]
    /\ tile_out = NoTiles
    /\ route_before = FALSE
    /\ names_in = NoNamesInput
    /\ names_out = NoRoadImpacts
    /\ run_in = NoRunInput
    /\ run_out = NoRunResult
    /\ run_shown = NotShown
    /\ lookups = [r \in Requests |-> NoLookup]
    /\ compute_lock = [key \in Keys |-> 0]
    /\ script_pc = "planner"
    /\ run_improved_analysis = "absent"
    /\ improved_analysis_results = NoStoredResults
    /\ provenance = NoProvenance
    /\ last_step = "none"
    /\ analyze_clicks = 0
    /\ analysis_runs = 0
    /\ ens_in = NoEnsureInput
    /\ ens = NotStarted

SpecCap   == CapInit /\ [][CapNext]_vars
SpecEnsure == EnsureInit /\ [][EnsureNext]_vars
SpecPlan  == PlanInit /\ [][PlanNext]_vars
SpecCache == CacheInit /\ [][CacheNext]_vars
SpecLookup == LookupInit /\ [][LookupNext]_vars
SpecAnalyze == AnalyzeInit /\ [][AnalyzeNext]_vars
SpecRoad  == RoadInit /\ [][RoadNext]_vars
SpecSession == SessionInit /\ [][SessionNext]_vars
SpecHazard == HazardInit /\ [][HazardNext]_vars
SpecNames == NamesInit /\ [][NamesNext]_vars
SpecRun   == RunInit /\ [][RunNext]_vars
SpecTiles == TilesInit /\ [][TilesNext]_vars

----------------------------------------------------------------------------
(* Claims about the route planner *)

\* how often a location's coordinate occurs on the stored routes
Occurrences(loc) ==
    Cardinality({vk \in {<<v, k>> : v \in DOMAIN route_data.routes, k \in 1..(NumLocations + 2)} :
                    /\ vk[2] <= Len(route_data.routes[vk[1]].coords)
                    /\ route_data.routes[vk[1]].coords[vk[2]] = LocCoord(loc)})

StoredDistance ==
    LET vs == SortedSeq(DOMAIN route_data.routes)
    IN  SumSeq([k \in 1..Len(vs) |-> route_data.routes[vs[k]].distance])

\* C7: in a solution for more than one selected stop, every non-depot location
\* is on at most one route and at most once on it, and the objective charges
\* the penalty of 1,000,000 exactly for the non-depot locations on no route.
C7_VisitedOnceOrPenalised ==
    (rp.outcome = "ok" /\ Cardinality(rp.selected) > 1) =>
        /\ \A loc \in rp.selected : Occurrences(loc) <= 1
        /\ rp.objective = StoredDistance
              + 1000000 * Cardinality({loc \in rp.selected : Occurrences(loc) = 0})

\* The same about the nodes of the routing model (node 0 taken as the depot):
\* every node 1..n-1 is a stop of at most one vehicle, once, and the objective
\* is the routes' cost plus the penalty for each node on no route.
NodesVisitedOnceOrPenalised ==
    (rp.outcome = "ok" /\ Cardinality(rp.selected) > 1) =>
        LET stopsOn(node) == {vk \in {<<v, k>> : v \in DOMAIN rp.solution, k \in 1..NumLocations} :
                                 /\ vk[2] <= Len(rp.solution[vk[1]])
                                 /\ rp.solution[vk[1]][vk[2]] = node}
        IN  /\ \A node \in 1..(Len(rp.nodes) - 1) : Cardinality(stopsOn(node)) <= 1
            /\ rp.objective = StoredDistance
                 + 1000000 * Cardinality({node \in 1..(Len(rp.nodes) - 1) : stopsOn(node) = {}})

\* C8 (as stated): with more than one stop selected, every vehicle's capacity is
\* the demand divided by the vehicle count, rounded up, plus one.
C8_CapacityRoundedUpPlusOne ==
    (cap_out.done /\ cap_in.D >= 2) =>
        \A v \in 0..(cap_in.V - 1) :
            cap_out.capacities[v] = CeilDiv(cap_in.D, cap_in.V) + 1

\* C8 (amended): with more than one stop selected, every vehicle's capacity is
\* the demand divided by the vehicle count, rounded down, plus one.
C8_CapacityRoundedDownPlusOne ==
    (cap_out.done /\ cap_in.D >= 2) =>
        /\ DOMAIN cap_out.capacities = 0..(cap_in.V - 1)
        /\ \A v \in 0..(cap_in.V - 1) :
              cap_out.capacities[v] = (cap_in.D \div cap_in.V) + 1

C8_Witness ==
    /\ cap_out.done
    /\ cap_in.D >= 2
    /\ cap_in.D % cap_in.V # 0
    /\ cap_out.capacities[0] = CeilDiv(cap_in.D, cap_in.V)

\* C9: node 0 of the routing model, where every vehicle starts and ends, is
\* the location designated as depot.
C9_NodeZeroIsDesignatedDepot ==
    rp.outcome \in {"ok", "no_solution"} =>
        /\ rp.nodes[1] = rp.depot_label
        /\ \A v \in DOMAIN route_data.routes :
              route_data.routes[v].coords[1] = LocCoord(rp.depot_label)

\* C10: every stored route has at least three points, starts and ends at the
\* depot coordinate, has only non-depot stops in between, is stored only for a
\* vehicle with a stop, and its distance is the sum of its arcs' matrix costs.
C10_StoredRoutes ==
    rp.outcome = "ok" =>
        /\ \A v \in 0..(rp.num_vehicles - 1) :
              (v \in DOMAIN route_data.routes) <=> (rp.solution[v] # <<>>)
        /\ \A v \in DOMAIN route_data.routes :
              LET r == route_data.routes[v]
                  n == Len(r.coords)
                  locAt(k) == CHOOSE l \in Locations : LocCoord(l) = r.coords[k]
              IN  /\ n >= 3
                  /\ r.coords[1] = LocCoord(rp.depot_label)
                  /\ r.coords[n] = LocCoord(rp.depot_label)
                  /\ \A k \in 2..(n - 1) : r.coords[k] \in {LocCoord(l) : l \in rp.selected}
                  /\ r.distance =
                       SumSeq([k \in 1..(n - 1) |-> distance_matrix[locAt(k)][locAt(k + 1)]])

\* The same with node 0 of the routing model taken as the depot.
StoredRoutesFromNodeZero ==
    rp.outcome = "ok" =>
        /\ \A v \in 0..(rp.num_vehicles - 1) :
              (v \in DOMAIN route_data.routes) <=> (rp.solution[v] # <<>>)
        /\ \A v \in DOMAIN route_data.routes :
              LET r == route_data.routes[v]
                  n == Len(r.coords)
                  locAt(k) == CHOOSE l \in Locations : LocCoord(l) = r.coords[k]
              IN  /\ n >= 3
                  /\ r.coords[1] = LocCoord(rp.nodes[1])
                  /\ r.coords[n] = LocCoord(rp.nodes[1])
                  /\ \A k \in 2..(n - 1) : r.coords[k] # LocCoord(rp.nodes[1])
                  /\ r.distance =
                       SumSeq([k \in 1..(n - 1) |-> distance_matrix[locAt(k)][locAt(k + 1)]])

----------------------------------------------------------------------------
(* Claims about the hazard tile cache *)

\* C3: for every key (tile bounding box, analysis date) the provider is asked
\* at most once, whatever the first lookup's outcome.
C3_AtMostOneProviderCall ==
    \A key \in Keys : provider_calls[key].post <= 1 /\ provider_calls[key].get <= 1

\* a repeated lookup of a key whose first lookup failed at the provider was
\* answered from the cache
C3_Witness ==
    /\ pft.looked # <<>>
    /\ pft.last_hit
    /\ LET key == pft.looked[Len(pft.looked)]
       IN  /\ overlay_cache[key].none
           /\ provider_calls[key].post = 1

\* the rasters process_flood_tiles must return: those of the tiles whose
\* lookup did not fail, in tile order
RECURSIVE RastersFrom(_, _, _, _)
RastersFrom(tiles, date, failed, i) ==
    IF i > Len(tiles) THEN <<>>
    ELSE (IF i \in failed THEN <<>> ELSE <<Raster(<<tiles[i], date>>)>>)
            \o RastersFrom(tiles, date, failed, i + 1)

\* C4: a failed tile never aborts process_flood_tiles: every tile is looked up
\* in tile order and the result is the rasters of the tiles that succeeded, in
\* tile order.
C4_FailedTileNeverAborts ==
    /\ pft.pc # "aborted"
    /\ pft.pc = "done" =>
          /\ pft.looked = [i \in 1..Len(pft.tiles) |-> <<pft.tiles[i], pft.date>>]
          /\ pft.all_flood_rasters = RastersFrom(pft.tiles, pft.date, pft.failed, 1)
          /\ Len(pft.all_flood_rasters) = Len(pft.tiles) - Cardinality(pft.failed)

\* a run in which a tile failed on an unreadable raster and a later tile succeeded
C4_Witness ==
    /\ pft.pc = "done"
    /\ 1 \in pft.failed
    /\ url_cache[<<pft.tiles[1], pft.date>>].cached
    /\ pft.all_flood_rasters # <<>>


----------------------------------------------------------------------------
(* Claims about the hazard intersection analyzer *)

\* raster k of the list marks the coordinate: inside the bounds, projected
\* without an error onto a pixel of the raster, and that pixel is 1
MarkedBy(coord, raster_data) ==
    LET xy == Project(raster_data.crs, coord[1], coord[2])
        rc == rowcol(raster_data.transform, xy[1], xy[2])
    IN  /\ raster_data.bounds[1][2] <= coord[1] /\ coord[1] <= raster_data.bounds[2][2]
        /\ raster_data.bounds[1][1] <= coord[2] /\ coord[2] <= raster_data.bounds[2][1]
        /\ ~ProjectionRaises(raster_data.crs, coord[1], coord[2])
        /\ rc[1] + 1 \in 1..Len(raster_data.pixels)
        /\ rc[2] + 1 \in 1..Len(raster_data.pixels[1])
        /\ raster_data.pixels[rc[1] + 1][rc[2] + 1] = 1

MarkingRasters(coord) ==
    {k \in 1..Len(an_in.rasters) : MarkedBy(coord, an_in.rasters[k])}

RecordsOf(v, i) ==
    {k \in 1..Len(an_out.affected_segments) :
        /\ an_out.affected_segments[k].vehicle = v + 1
        /\ an_out.affected_segments[k].segment = i}

\* C1: for every vehicle route and every list of hazard tiles the analyzer
\* returns exactly one record for each sample index whose coordinate lies
\* inside some tile's bounds on an in-raster pixel equal to 1, and no record
\* for any other sample index
C1_OneRecordPerFloodedSample ==
    an_out.done =>
        \A v \in DOMAIN an_out.checked :
            /\ \A i \in 0..(Len(an_out.checked[v]) - 1) :
                  Cardinality(RecordsOf(v, i)) =
                      IF MarkingRasters(an_out.checked[v][i + 1]) # {} THEN 1 ELSE 0
            /\ \A k \in 1..Len(an_out.affected_segments) :
                  LET r == an_out.affected_segments[k]
                  IN  /\ r.vehicle \in {w + 1 : w \in DOMAIN an_out.checked}
                      /\ r.vehicle = v + 1 =>
                            /\ r.segment \in 0..(Len(an_out.checked[v]) - 1)
                            /\ r.coordinate = an_out.checked[v][r.segment + 1]

\* a sample that two rasters of the list mark, next to one that none marks
C1_Witness ==
    /\ an_out.done
    /\ \E v \in DOMAIN an_out.checked :
          /\ \E i \in 1..Len(an_out.checked[v]) :
                Cardinality(MarkingRasters(an_out.checked[v][i])) >= 2
          /\ \E i \in 1..Len(an_out.checked[v]) :
                MarkingRasters(an_out.checked[v][i]) = {}


----------------------------------------------------------------------------
(* Claims about the road impact of a hazard raster *)

\* vertex k of the feature lies on a pixel of the raster with this value set
VertexPixel(feature, k) ==
    LET ll == transformer_transform(feature.coordinates[k][1], feature.coordinates[k][2])
        rc == flood_rowcol(ll[1], ll[2])
    IN  IF /\ ~OutOfTransform(ll[1], ll[2])
           /\ rc[1] + 1 \in 1..Len(road_in.flood_pixels)
           /\ rc[2] + 1 \in 1..Len(road_in.flood_pixels[1])
        THEN {road_in.flood_pixels[rc[1] + 1][rc[2] + 1]}
        ELSE {}

OnFloodedPixel(feature) ==
    \E k \in 1..Len(feature.coordinates) : 1 \in VertexPixel(feature, k)

\* C2: a road feature with any in-raster vertex on a pixel of value 1 is
\* returned in the flooded list and not in the near-flood list, even if an
\* earlier vertex already set the near-flood mark; the two lists are disjoint
C2_FloodedNeverNearFlood ==
    road_out.done =>
        /\ \A feature \in Range(road_in.roads_geojson.features) :
              OnFloodedPixel(feature) =>
                  /\ feature \in Range(road_out.affected_roads)
                  /\ feature \notin Range(road_out.near_flood_roads)
        /\ Range(road_out.affected_roads) \cap Range(road_out.near_flood_roads) = {}

\* a feature whose first vertex is on a clear pixel next to a flooded one and
\* whose second vertex is on the flooded pixel
C2_Witness ==
    /\ road_out.done
    /\ \E feature \in Range(road_in.roads_geojson.features) :
          /\ Len(feature.coordinates) >= 2
          /\ VertexPixel(feature, 1) = {0}
          /\ ScanVertices(<<feature.coordinates[1]>>, road_in.flood_pixels, 1, FALSE).is_near_flood
          /\ VertexPixel(feature, 2) = {1}
          /\ feature \in Range(road_out.affected_roads)


----------------------------------------------------------------------------
(* Claims about the tile grid *)

Covers(tile, x, y) == tile[1] <= x /\ x <= tile[3] /\ tile[2] <= y /\ y <= tile[4]

\* C5: every point inside the outer bounding box, its maximum edges
\* included, falls within at least one tile returned by generate_tiles
C5_BoundingBoxCovered ==
    tile_out.done =>
        \A x \in tile_in.bbox[1]..tile_in.bbox[3], y \in tile_in.bbox[2]..tile_in.bbox[4] :
            \E k \in 1..Len(tile_out.tiles) : Covers(tile_out.tiles[k], x, y)

InteriorsMeet(s, t) ==
    /\ Max2(s[1], t[1]) < Min2(s[3], t[3])
    /\ Max2(s[2], t[2]) < Min2(s[4], t[4])

\* C6: any two distinct tiles returned by generate_tiles have disjoint
\* interiors, and no two tiles have the same minimum corner
C6_TilesDisjoint ==
    tile_out.done =>
        \A j, k \in 1..Len(tile_out.tiles) :
            j # k =>
                /\ ~InteriorsMeet(tile_out.tiles[j], tile_out.tiles[k])
                /\ <<tile_out.tiles[j][1], tile_out.tiles[j][2]>>
                       # <<tile_out.tiles[k][1], tile_out.tiles[k][2]>>


----------------------------------------------------------------------------
(* Claims about a planner session *)

\* C11: when the optimizer finds no solution the request ends in a failure
\* and no route is published: after that render route_data is absent from the
\* session state, a route of an earlier successful request included
C11_NoSolutionNoRoute ==
    rp.outcome = "no_solution" => ~route_data.present /\ route_data = Absent

\* a request without a solution that followed one which had stored routes
C11_Witness ==
    /\ rp.outcome = "no_solution"
    /\ route_before
    /\ ~route_data.present


----------------------------------------------------------------------------
(* Claims about the road names of flagged points *)

\* the flagged points the road list attaches to a road of this description
AttachedTo(description) ==
    LET features == overpass_to_geojson(names_in.road_response.elements)
    IN  {i \in 1..Len(names_in.affected_segments) :
            LET c == names_in.affected_segments[i].coordinate
                best == FindClosestRoad(c[1], c[2], features, 1,
                            [closest_road |-> 0, min_distance2 |-> -1])
            IN  Attached(best) /\ road_desc(features[best.closest_road]) = description}

\* C12: for every road to which flagged points were attached the reported
\* severity is severely flooded exactly when the road accumulated more than 5
\* affected points, and partially flooded when it accumulated 1 to 5
C12_SeverityByCount ==
    (names_out.done /\ names_in.road_response.kind = "ok") =>
        \A g \in 1..Len(names_out.road_impacts) :
            LET impact == names_out.road_impacts[g]
            IN  /\ impact.affected_points = Cardinality(AttachedTo(impact.description))
                /\ impact.affected_points >= 1
                /\ impact.severity = "Severely flooded" <=> impact.affected_points > 5
                /\ impact.severity = "Partially flooded" <=> impact.affected_points \in 1..5

\* a road that accumulated more than 5 points, from two ways of one name
C12_Witness ==
    /\ names_out.done
    /\ names_in.road_response.kind = "ok"
    /\ \E g \in 1..Len(names_out.road_impacts) :
          /\ names_out.road_impacts[g].affected_points > 5
          /\ names_out.road_impacts[g].severity = "Severely flooded"
          /\ \E i, j \in AttachedTo(names_out.road_impacts[g].description) :
                names_in.affected_segments[i].coordinate
                    # names_in.affected_segments[j].coordinate

ReportedPoints ==
    SumSeq([g \in 1..Len(names_out.road_impacts) |->
               names_out.road_impacts[g].affected_points])

\* C13: every flagged point is attributed to exactly one bucket, its nearest
\* road when closer than the proximity threshold and the local-roads fallback
\* bucket otherwise, so the affected-point counts of the returned RoadImpacts
\* sum to the number of flagged points given
C13_EveryPointInOneBucket ==
    names_out.done => ReportedPoints = Len(names_in.affected_segments)

\* C14: when the road network provider fails for a non-empty set of flagged
\* points the call returns exactly one area-bucket RoadImpact whose
\* affected-point count is the number of flagged points and whose coordinates
\* are all of them; no road-specific impact is returned
C14_ProviderFailureAreaBucket ==
    (/\ names_out.done
     /\ names_in.road_response.kind # "ok"
     /\ names_in.affected_segments # <<>>) =>
        /\ Len(names_out.road_impacts) = 1
        /\ names_out.road_impacts[1].name = "Local roads"
        /\ names_out.road_impacts[1].affected_points = Len(names_in.affected_segments)
        /\ names_out.road_impacts[1].coordinates =
              [i \in 1..Len(names_in.affected_segments) |->
                  <<names_in.affected_segments[i].coordinate[2],
                    names_in.affected_segments[i].coordinate[1]>>]

\* a failed fetch with several flagged points
C14_Witness ==
    /\ names_out.done
    /\ names_in.road_response.kind = "fetch_error"
    /\ Len(names_in.affected_segments) >= 2
    /\ Len(names_out.road_impacts) = 1

\* C15: every RoadImpact, those of the road-provider fallback path included,
\* has a severity that is partially flooded or severely flooded
C15_SeverityOneOfTwo ==
    names_out.done =>
        \A g \in 1..Len(names_out.road_impacts) :
            names_out.road_impacts[g].severity \in {"Partially flooded", "Severely flooded"}


----------------------------------------------------------------------------
(* Further claims about the hazard intersection analyzer *)

\* the (vehicle, sample index, coordinate) points of a list of records
FlaggedSet(segments) ==
    {<<segments[k].vehicle, segments[k].segment, segments[k].coordinate>> :
        k \in 1..Len(segments)}

\* the lists that hold the rasters of a list in another order
Reorderings(rasters) ==
    {[i \in 1..Len(rasters) |-> rasters[p[i]]] :
        p \in {q \in [1..Len(rasters) -> 1..Len(rasters)] :
                  \A i, j \in 1..Len(rasters) : i # j => q[i] # q[j]}}

\* C19: for every route and every permutation of the list of hazard tiles
\* the analyzer flags the same set of (vehicle, sample index, coordinate)
\* points
C19_TileOrderIndependent ==
    an_out.done =>
        \A reordered \in Reorderings(an_in.rasters) :
            FlaggedSet(analyze_road_flood_impact_improved(
                           an_in.route_data, reordered, an_in.directions))
                = FlaggedSet(an_out.affected_segments)

\* a reordering that changes the records (the tile recorded for a point, or
\* a tile that holds the point dry ahead of one that holds it flooded) while
\* the flagged points stay
C19_Witness ==
    /\ an_out.done
    /\ an_out.affected_segments # <<>>
    /\ \E reordered \in Reorderings(an_in.rasters) :
          /\ analyze_road_flood_impact_improved(
                 an_in.route_data, reordered, an_in.directions)
               # an_out.affected_segments
          /\ \E i \in 1..Len(an_in.rasters) :
                \E v \in DOMAIN an_out.checked :
                   \E k \in 1..Len(an_out.checked[v]) :
                      /\ ~PixelAt(an_out.checked[v][k], an_in.rasters[i]).skip
                      /\ PixelAt(an_out.checked[v][k], an_in.rasters[i]).value # 1
                      /\ MarkingRasters(an_out.checked[v][k]) # {}

\* the raster holds the coordinate on a pixel that is not flooded while a
\* pixel within buffer pixels in each axis (window clamped to the raster) is
NearFloodIn(coord, raster_data) ==
    LET p == PixelAt(coord, raster_data)
        rows == Len(raster_data.pixels)
        cols == Len(raster_data.pixels[1])
    IN  /\ ~p.skip
        /\ p.value # 1
        /\ AnyFlooded(raster_data.pixels,
                      Max2(0, p.py - buffer), Min2(rows, p.py + buffer + 1),
                      Max2(0, p.px - buffer), Min2(cols, p.px + buffer + 1))

\* C20: a route coordinate inside a tile whose own pixel is not flooded but
\* for which some pixel within 3 pixels in each axis is flooded is classified
\* near-flood and retained in the analyzer's output for that route
C20_NearFloodRetained ==
    an_out.done =>
        \A v \in DOMAIN an_out.checked :
            \A i \in 0..(Len(an_out.checked[v]) - 1) :
                (\E k \in 1..Len(an_in.rasters) :
                    NearFloodIn(an_out.checked[v][i + 1], an_in.rasters[k]))
                    => RecordsOf(v, i) # {}


----------------------------------------------------------------------------
(* Claims about a hazard analysis run *)

RunRastersFound == process_flood_tiles(run_in.tile_results)

\* some coordinate checked for a vehicle lies on a flooded pixel of a raster
\* the run retrieved
RunPointFlooded ==
    \E v \in DOMAIN run_in.route_data :
        LET checked == coords_to_check(run_in.route_data[v].coords, run_in.directions[v])
        IN  \E i \in 1..Len(checked), k \in 1..Len(RunRastersFound) :
                MarkedBy(checked[i], RunRastersFound[k])

ZeroImpacts(results) ==
    /\ results.total_affected = 0
    /\ results.affected_segments = <<>>
    /\ results.road_impacts = <<>>

\* C16: when the provider returns no data for every tile the stored result
\* has zero affected vehicles, no affected segments, no road impacts and
\* flood_data_found = false; when at least one tile returned a raster and no
\* route point is flooded the result has the same zero impacts but
\* flood_data_found = true
C16_NoDataDistinguished ==
    run_out.done =>
        /\ RunRastersFound = <<>> =>
              ZeroImpacts(run_out.results) /\ run_out.results.flood_data_found = FALSE
        /\ (RunRastersFound # <<>> /\ ~RunPointFlooded) =>
              ZeroImpacts(run_out.results) /\ run_out.results.flood_data_found = TRUE

\* a run with a failed tile and a raster with flooded pixels that no route
\* point lies on
C16_Witness ==
    /\ run_out.done
    /\ \E k \in 1..Len(run_in.tile_results) : run_in.tile_results[k].status = "failed"
    /\ \E k \in 1..Len(RunRastersFound) : RunRastersFound[k] # ZeroRaster
    /\ ~RunPointFlooded
    /\ run_out.results.flood_data_found
    /\ ZeroImpacts(run_out.results)

\* C17: if some coordinate of a route projects onto a flooded pixel of a
\* retrieved tile the RoadImpact set is non-empty, whatever road features the
\* road network provider returns; if every retrieved raster is all-zero the
\* RoadImpact set is empty
C17_FloodedPointGivesRoadImpact ==
    run_out.done =>
        /\ RunPointFlooded => run_out.results.road_impacts # <<>>
        /\ (\A k \in 1..Len(RunRastersFound) : RunRastersFound[k] = ZeroRaster) =>
              run_out.results.road_impacts = <<>>

\* a provider failed in the run: a tile fetch while another tile succeeded,
\* the route geometry of a vehicle, or the road network once it was asked
RunDegraded ==
    \/ /\ \E k \in 1..Len(run_in.tile_results) : run_in.tile_results[k].status = "failed"
       /\ RunRastersFound # <<>>
    \/ \E v \in DOMAIN run_in.directions :
          run_in.directions[v].kind = "raise" \/ run_in.directions[v].features = <<>>
    \/ /\ run_in.road_response.kind # "ok"
       /\ run_out.results.affected_segments # <<>>

\* the runs without a failure that obtain the same rasters and the same route
\* coordinates: no failed tile, a geometry of the checked coordinates for
\* every vehicle, a road network answer
FullRunResults ==
    {AnalysisResults(
         run_in.route_data,
         [k \in 1..Len(RunRastersFound) |-> [status |-> "ok", data |-> RunRastersFound[k]]],
         [v \in DOMAIN run_in.directions |->
             [kind |-> "ok",
              features |-> <<[type |-> "LineString",
                              coordinates |-> coords_to_check(run_in.route_data[v].coords,
                                                              run_in.directions[v])]>>]],
         road_response) :
        road_response \in {r \in RunRoadResponses : r.kind = "ok"}}

\* C18: the result stored by a run in which a provider failed differs, in
\* some field, from the result of a run that obtained the same rasters, routes
\* and roads with no failure
C18_DegradedRunFlagged ==
    (run_out.done /\ RunDegraded) => run_out.results \notin FullRunResults


\* the records of the analysis of the one coordinate alone, as a route of its
\* own that the route geometry provider does not densify
AloneRecords(v, coord) ==
    analyze_road_flood_impact_improved(
        [w \in {v} |-> [coords |-> <<coord>>]], an_in.rasters,
        [w \in {v} |-> [kind |-> "raise", features |-> <<>>]])

FailedSamples(v) ==
    {i \in 1..Len(an_out.checked[v]) :
        \E k \in 1..Len(an_in.rasters) : RaisesFor(an_out.checked[v][i], an_in.rasters[k])}

\* C21: when the projection or the pixel indexing raises for a coordinate
\* against a tile, the analysis returns and every other coordinate of the
\* route has the record (tile and pixel) it has when analysed alone, or none
\* when it has none alone
C21_FailureAffectsOnlyThatCoordinate ==
    an_out.done =>
        \A v \in DOMAIN an_out.checked :
            FailedSamples(v) # {} =>
                \A i \in (1..Len(an_out.checked[v])) \ FailedSamples(v) :
                    LET alone == AloneRecords(v, an_out.checked[v][i])
                    IN  {[raster_index |-> an_out.affected_segments[k].raster_index,
                          pixel_coords |-> an_out.affected_segments[k].pixel_coords,
                          coordinate |-> an_out.affected_segments[k].coordinate] :
                            k \in RecordsOf(v, i - 1)}
                        = {[raster_index |-> alone[k].raster_index,
                            pixel_coords |-> alone[k].pixel_coords,
                            coordinate |-> alone[k].coordinate] : k \in 1..Len(alone)}

\* a coordinate raises against a tile and a later coordinate of the route is
\* flagged by that same tile
C21_Witness ==
    /\ an_out.done
    /\ \E v \in DOMAIN an_out.checked :
          \E i, j \in 1..Len(an_out.checked[v]) :
             \E k \in 1..Len(an_in.rasters) :
                /\ i < j
                /\ RaisesFor(an_out.checked[v][i], an_in.rasters[k])
                /\ j \notin FailedSamples(v)
                /\ \E n \in RecordsOf(v, j - 1) :
                      an_out.affected_segments[n].raster_index = k - 1


\* the route geometry provider raised for the vehicle or returned no features
GeometryFailed(v) ==
    run_in.directions[v].kind = "raise" \/ run_in.directions[v].features = <<>>

\* the (sample index, coordinate) pairs of a coordinate list that some raster
\* the run retrieved marks
MarkedSamples(coords) ==
    {<<i - 1, coords[i]>> : i \in {j \in 1..Len(coords) :
        \E k \in 1..Len(RunRastersFound) : MarkedBy(coords[j], RunRastersFound[k])}}

RunRecordsOf(v) ==
    {<<run_out.results.affected_segments[k].segment,
       run_out.results.affected_segments[k].coordinate>> :
        k \in {n \in 1..Len(run_out.results.affected_segments) :
                  run_out.results.affected_segments[n].vehicle = v + 1}}

\* C22: in a run in which the route geometry provider fails for a vehicle
\* (it raises, or returns no features) the records of that vehicle are those
\* of its stored stop coordinates, with their positions in the stop list, and
\* the records of every other vehicle are those of the geometry it was given
C22_GeometryFailureFallsBackToStops ==
    (run_out.done /\ \E v \in DOMAIN run_in.route_data : GeometryFailed(v)) =>
        \A v \in DOMAIN run_in.route_data :
            RunRecordsOf(v) =
                MarkedSamples(IF GeometryFailed(v)
                              THEN run_in.route_data[v].coords
                              ELSE detailed_coords(run_in.directions[v].features))

\* two vehicles: the geometry request of one fails and one of its stops is
\* flagged, the other is flagged at a point of its geometry past its stops
C22_Witness ==
    /\ run_out.done
    /\ \E v, w \in DOMAIN run_in.route_data :
          /\ GeometryFailed(v) /\ ~GeometryFailed(w)
          /\ RunRecordsOf(v) # {}
          /\ \E r \in RunRecordsOf(w) : r[1] >= Len(run_in.route_data[w].coords)


\* some point of the vehicle was flagged in the displayed run
VehicleFlagged(v) == RunRecordsOf(v) # {}

\* C23: the result display draws alternative routes for a vehicle only when
\* a point of that vehicle was flagged and the RoadImpact list of the result
\* is not empty
C23_AlternativesOnlyForAffected ==
    run_shown.shown =>
        \A v \in DOMAIN run_shown.alternatives :
            VehicleFlagged(v) /\ run_out.results.road_impacts # <<>>

\* C24: for every stored route the two alternatives drawn are lists of four
\* waypoints from the route's first coordinate to the coordinate before its
\* closing return to the depot, the second and third waypoints being offsets
\* of those two
C24_TwoAlternativesStartToLastStop ==
    run_shown.shown =>
        \A v \in DOMAIN run_shown.alternatives :
            LET coords == run_in.route_data[v].coords
                alts == run_shown.alternatives[v]
            IN  /\ Len(alts) = 2
                /\ \A a \in 1..2 :
                      LET w == alts[a].waypoints
                      IN  /\ Len(w) = 4
                          /\ w[1] = coords[1]
                          /\ w[4] = coords[Len(coords) - 1]
                          /\ w[2] # w[1] /\ w[3] # w[4]
                          /\ \E d \in {<<5, -2>>, <<-8, 1>>} :
                                w[2] = <<w[1][1] + d[1], w[1][2] + d[2]>>
                          /\ \E d \in {<<3, -1>>, <<-5, 2>>} :
                                w[3] = <<w[4][1] + d[1], w[4][2] + d[2]>>
                /\ alts[1].waypoints # alts[2].waypoints

\* alternatives drawn for a route whose last stop is not its depot
C24_Witness ==
    /\ run_shown.shown
    /\ \E v \in DOMAIN run_shown.alternatives :
          LET coords == run_in.route_data[v].coords
          IN  /\ Len(coords) > 2
              /\ coords[Len(coords) - 1] # coords[Len(coords)]
              /\ run_shown.alternatives[v][1].waypoints[4] = coords[Len(coords) - 1]


----------------------------------------------------------------------------
(* Claims about concurrent lookups of the hazard tile cache *)

Computing(key) == {r \in Requests : lookups[r].pc = "computing" /\ lookups[r].key = key}

\* C25: when requests look the same (tile, date) key up concurrently, at most
\* one of them has the provider fetch of that key in flight, the provider is
\* asked once for the key, and every request returns what that one fetch gave
C25_AtMostOneFetchInFlight ==
    \A key \in Keys :
        /\ Cardinality(Computing(key)) <= 1
        /\ provider_calls[key].post <= 1 /\ provider_calls[key].get <= 1
        /\ \A r, q \in Requests :
              (lookups[r].pc = "returned" /\ lookups[q].pc = "returned"
                  /\ lookups[r].key = key /\ lookups[q].key = key) =>
                    /\ lookups[r].none = lookups[q].none
                    /\ lookups[r].value = lookups[q].value
                    /\ ~(lookups[r].computed /\ lookups[q].computed /\ r # q)

\* a request missed the memo while another was computing the key, waited for
\* the lock and returned the stored value, the provider asked once
C25_Witness ==
    \E r, q \in Requests :
        /\ r # q
        /\ lookups[r].pc = "returned" /\ lookups[q].pc = "returned"
        /\ lookups[r].key = lookups[q].key
        /\ lookups[r].computed /\ ~lookups[r].none
        /\ lookups[q].waited /\ ~lookups[q].computed
        /\ lookups[q].value = lookups[r].value
        /\ provider_calls[lookups[r].key].post = 1


----------------------------------------------------------------------------
(* Further claims about a planner session *)

\* C28: a render that returns early (no destination selected, or the distance
\* matrix fetch raised) leaves route_data as it was; route_data is replaced
\* only by a render that found a solution and removed only by one whose
\* solver returned none
C28_EarlyReturnKeepsRoutes ==
    [][/\ rp'.outcome \in {"no_destination", "matrix_error"} => route_data' = route_data
       /\ route_data' # route_data =>
             \/ rp'.outcome = "ok" /\ route_data'.present
             \/ rp'.outcome = "no_solution" /\ route_data' = Absent]_vars

\* the matrix fetch raised in a session that had stored routes, and has them
\* still
C28_Witness ==
    /\ rp.outcome = "matrix_error"
    /\ route_before
    /\ route_data.present
    /\ route_data.routes # <<>>


----------------------------------------------------------------------------
(* Claims about a hazard tab session *)

CoordsOf(routes) == [v \in DOMAIN routes |-> routes[v].coords]

\* C26: the analysis results a script run displays were computed from the
\* route_data the session holds in that run
C26_ResultsOfCurrentRoutes ==
    last_step = "displayed" =>
        /\ improved_analysis_results.present
        /\ CoordsOf(provenance.routes) = CoordsOf(route_data.routes)

\* C27: a run of the analysis ends with its result record stored (after an
\* exception: zero impacts, flood_data_found false, the error field set) and
\* with run_improved_analysis False; the analysis has run at most once per
\* click on Analyze; Clear Analysis removes both the results and the flag
C27_RunStoresRecordAndResetsFlag ==
    /\ last_step \in {"run_completed", "run_raised", "run_interrupted"} =>
          /\ improved_analysis_results.present
          /\ provenance.run = analysis_runs
          /\ run_improved_analysis = "False"
          /\ last_step = "run_raised" =>
                /\ improved_analysis_results.error
                /\ improved_analysis_results.value = ErrorResults
    /\ analysis_runs <= analyze_clicks
    /\ last_step = "clear_click" =>
          ~improved_analysis_results.present /\ run_improved_analysis = "absent"


\* what holds of the runs: one that completes or raises an Exception stores
\* its record, every run resets the flag, the analysis runs at most once per
\* click and Clear Analysis removes both entries
RunStoresRecordUnlessInterrupted ==
    /\ last_step \in {"run_completed", "run_raised"} =>
          /\ improved_analysis_results.present
          /\ provenance.run = analysis_runs
          /\ last_step = "run_raised" =>
                /\ improved_analysis_results.error
                /\ improved_analysis_results.value = ErrorResults
    /\ last_step \in {"run_completed", "run_raised", "run_interrupted"} =>
          run_improved_analysis = "False"
    /\ analysis_runs <= analyze_clicks
    /\ last_step = "clear_click" =>
          ~improved_analysis_results.present /\ run_improved_analysis = "absent"


----------------------------------------------------------------------------
(* Further claims about the capacity set-up *)

CapacitySum ==
    SumSeq([k \in 1..cap_in.V |-> cap_out.capacities[k - 1]])

\* C29: for every number D >= 1 of selected stops and every vehicle count V in
\* 1..5 the vehicle capacities sum to at least D; with exactly one stop every
\* vehicle's capacity is 2 and no disjunction is registered
C29_CapacitiesCoverDemand ==
    cap_out.done =>
        /\ DOMAIN cap_out.capacities = 0..(cap_in.V - 1)
        /\ CapacitySum >= cap_in.D
        /\ cap_in.D = 1 =>
              /\ \A v \in 0..(cap_in.V - 1) : cap_out.capacities[v] = 2
              /\ cap_out.penalised = {}

\* more stops than vehicles, the vehicle count not dividing them: the
\* capacities sum to more than the stops, the rounded-down shares to fewer
C29_Witness ==
    /\ cap_out.done
    /\ cap_in.D > cap_in.V
    /\ cap_in.V > 1
    /\ cap_in.D % cap_in.V # 0
    /\ cap_in.V * (cap_in.D \div cap_in.V) < cap_in.D
    /\ CapacitySum > cap_in.D


----------------------------------------------------------------------------
(* Claims about the backend start-up *)

\* the sources the call may try for a missing asset, in the order it may try
\* them: MinIO first when there is a client, the fallback URL only when there
\* is no client or MinIO failed
AllowedTries(k) ==
    LET case == ens_in.assets[k]
        minio == IF ens.s3_client THEN <<"minio">> ELSE <<>>
    IN  IF case.exists THEN {<<>>}
        ELSE IF ens.s3_client /\ case.minio = "ok" THEN {<<"minio">>}
        ELSE {minio, minio \o <<"fallback">>}

Unobtainable(k) ==
    LET case == ens_in.assets[k]
    IN  /\ ~case.exists
        /\ ~(ens.s3_client /\ case.minio = "ok")
        /\ ~(case.fallback_url /\ case.fallback = "ok")

\* C30: ensure_files_exist returns only if each of the two assets, the config
\* then the checkpoint, was there already or was downloaded, MinIO first and
\* the fallback URL only without a MinIO client or after MinIO failed, and was
\* patched exactly once; an asset that neither source delivers ends the
\* process with status 1, unpatched, the later assets not looked at
C30_AssetsPresentAndPatchedOnce ==
    /\ ens.pc = "returned" =>
          \A k \in 1..Len(Assets) :
              /\ ens_in.assets[k].exists \/ ens.log[k].downloaded
              /\ ens.log[k].tried \in AllowedTries(k)
              /\ ens.log[k].patched = 1
    /\ \A k \in 1..Len(Assets) :
          (ens.i > k /\ Unobtainable(k)) =>
                /\ ens.pc = "exited" /\ ens.exit_status = 1
                /\ ens.log[k].patched = 0
                /\ \A j \in (k + 1)..Len(Assets) : ens.log[j] = NoAssetLog
    /\ ens.pc = "exited" => ens.exit_status = 1 /\ Unobtainable(ens.i - 1)
    /\ Assets = <<"config", "checkpoint">>

\* a call that returned: the config came from the fallback URL after MinIO
\* failed, the checkpoint was there already, both patched
C30_Witness ==
    /\ ens.pc = "returned"
    /\ ens.log[1].tried = <<"minio", "fallback">>
    /\ ens.log[1].downloaded
    /\ ens_in.assets[2].exists
    /\ ens.log[2].tried = <<>>
    /\ ens.log[1].patched = 1 /\ ens.log[2].patched = 1

====
